---- MODULE Spec2Model ----
(***************************************************************************)
(* Model of the gssw-based aligner of vg (Aligner / QualAdjAligner):       *)
(* one align, align_pinned or align_pinned_multi call, from the entry      *)
(* point through align_internal, create_gssw_graph, reverse_graph, the     *)
(* traceback handed over by gssw, unreverse_graph_mapping and              *)
(* gssw_mapping_to_alignment, to the Alignment written back to the caller. *)
(*                                                                         *)
(* Strings are sequences of one-letter strings.  Sequences are 1-based,    *)
(* so an index i of the C++ code is i + 1 here; offsets and lengths that   *)
(* the code stores (position.offset, from_length, ...) keep their values.  *)
(***************************************************************************)
EXTENDS Integers, Sequences, FiniteSets, TLC

(***************************************************************************)
(* Bounds of the model.                                                    *)
(***************************************************************************)
\* largest max_alt_alns a caller passes to align_pinned_multi
MaxAlt == 2
\* largest score gssw reports for a traceback
MaxScore == 2
\* longest insertion gssw records on the dummy pinning node
MaxDummyIns == 2
\* most gap columns (I or D) of a traceback on the real nodes, single call
MaxIndel == 2
\* most gap columns of a traceback on the real nodes, multi call
MaxIndelMulti == 0
\* largest log base, in units of ln 2
MaxLogBase == 2
\* longest vector of alignments handed to the mapping quality calls
MaxVec == 2
\* largest alignment score handed to the mapping quality calls
MaxMqScore == 2

\* +infinity of a double (the result of -10 * log10(0)), and
\* -std::numeric_limits<double>::max(), as the ends of the integer range
Infinity == 2147483647
DBL_LOWEST == -1073741824

\* numeric_limits<uint32_t>::max(), the id of the dummy pinning node: all 32
\* bits set, which is -1 in the 32-bit signed integers of TLC
DUMMY_ID == -1

(***************************************************************************)
(* Small helpers on sequences.                                             *)
(***************************************************************************)
RECURSIVE Reverse(_)
Reverse(s) == IF s = <<>> THEN <<>> ELSE Append(Reverse(Tail(s)), Head(s))

RECURSIVE SumSeq(_)
SumSeq(s) == IF s = <<>> THEN 0 ELSE Head(s) + SumSeq(Tail(s))

RECURSIVE Flatten(_)
Flatten(ss) == IF ss = <<>> THEN <<>> ELSE Head(ss) \o Flatten(Tail(ss))

RemoveAt(s, j) == SubSeq(s, 1, j - 1) \o SubSeq(s, j + 1, Len(s))

Range(s) == {s[i] : i \in 1..Len(s)}

(***************************************************************************)
(* Inputs: graphs (Node, Edge of vg.proto), reads, Alignments.             *)
(***************************************************************************)
MkNode(id, seq) == [id |-> id, sequence |-> seq]
MkEdge(f, t, fs, te) == [from |-> f, to |-> t, from_start |-> fs, to_end |-> te]
MkGraph(ns, es) == [node |-> ns, edge |-> es]

\* graphs handed to the aligner: nodes in topological order
Graphs ==
    { MkGraph(<<>>, <<>>),
      MkGraph(<<MkNode(1, <<"A", "C">>)>>, <<>>),
      MkGraph(<<MkNode(1, <<"A">>), MkNode(2, <<"C", "A">>)>>,
              <<MkEdge(1, 2, FALSE, FALSE)>>),
      MkGraph(<<MkNode(1, <<"C">>), MkNode(2, <<"N">>)>>,
              <<MkEdge(2, 1, TRUE, TRUE)>>),
      MkGraph(<<MkNode(1, <<"A">>), MkNode(2, <<"C">>)>>,
              <<MkEdge(1, 2, TRUE, FALSE)>>),
      MkGraph(<<MkNode(1, <<"A">>), MkNode(2, <<"C">>)>>,
              <<MkEdge(1, 2, FALSE, FALSE), MkEdge(2, 1, FALSE, TRUE)>>) }

\* read sequences
Reads == { <<"A">>, <<"A", "C">> }

NoIdentity == [num |-> 0, den |-> 0]

\* a path left in the caller's Alignment by an earlier alignment of the read
StalePath ==
    << [position |-> [node_id |-> 1, offset |-> 0], rank |-> 1,
        edit |-> << [from_length |-> 1, to_length |-> 1, sequence |-> <<>>] >>] >>

FreshAlignment(seq, qual) ==
    [sequence |-> seq, quality |-> qual, path |-> <<>>, score |-> 0,
     identity |-> NoIdentity, query_position |-> 0]

StaleAlignment(seq, qual) ==
    [sequence |-> seq, quality |-> qual, path |-> StalePath, score |-> 1,
     identity |-> [num |-> 1, den |-> 1], query_position |-> 0]

\* quality strings: one Phred byte per base, or none
QualityOf(seq) == [i \in 1..Len(seq) |-> 30]

(***************************************************************************)
(* State.                                                                  *)
(***************************************************************************)
VARIABLES
    pc,               \* where the call is
    qual_adj,         \* the aligner is a QualAdjAligner
    alignment,        \* the caller's Alignment
    alt_alignments,   \* the caller's vector of alternates
    g,                \* the caller's Graph
    args,             \* pinned, pin_left, max_alt_alns, multi_alignments != nullptr
    entry,            \* history: alignment and alt_alignments as the call began
    reversed_graph,   \* align_internal's local reversed copy
    align_sequence,   \* align_internal's local copy of the read
    align_quality,    \* QualAdjAligner::align_internal's local copy of the quality
    graph,            \* the gssw graph: ids of its nodes and its edges
    gms,              \* the tracebacks gssw handed over
    err,              \* the fatal error the call ended in, or "none"
    heap,             \* what the call got from gssw: "none", "live" or "freed"
    calls,            \* history: what align_internal has called or done, in order
    log_base,         \* Aligner::log_base, counted in units of ln 2
    init_called,      \* history: init_mapping_quality has been called
    init_query,       \* what is_mapping_quality_initialized() returned last, if called
    mq_pc,            \* the last mapping quality call: "idle", "returned", "fatal", "crashed"
    mq_args,          \* its arguments
    alignment_pairs,  \* the caller's vectors: first (the only one if unpaired), second
    mq_entry,         \* history: the vectors and log_base as the call began
    mq_write,         \* history: the elements set_mapping_quality was called on
    mq_err,           \* the fatal error the call ended in, or "none"
    rt,               \* a left-pinned call and its mirrored right-pinned call
    aligner,          \* the scoring fields of the Aligner
    threads,          \* the calls of two threads on the one Aligner
    conv,             \* a conversion of a pinned traceback of any shape
    scan,             \* a pass of maximum_mapping_quality_approx over any vector
    walk,             \* ReadRestrictedTraversalFinder::find_traversals on one path
    filter            \* one Filter and its depth_filter calls

align_vars == <<pc, qual_adj, alignment, alt_alignments, g, args, entry, reversed_graph,
                align_sequence, align_quality, graph, gms, err, heap, calls>>

mq_vars == <<log_base, init_called, init_query, mq_pc, mq_args, alignment_pairs,
             mq_entry, mq_write, mq_err>>

conc_vars == <<aligner, threads>>

vars == <<align_vars, mq_vars, rt, conc_vars, conv, scan, walk, filter>>

\* what an alignment call, and a mapping quality call, has no access to
not_align_vars == <<mq_vars, rt, conc_vars, conv, scan, walk, filter>>
not_mq_vars == <<align_vars, rt, conc_vars, conv, scan, walk, filter>>
not_rt_vars == <<align_vars, mq_vars, conc_vars, conv, scan, walk, filter>>
not_conc_vars == <<align_vars, mq_vars, rt, conv, scan, walk, filter>>
not_conv_vars == <<align_vars, mq_vars, rt, conc_vars, scan, walk, filter>>
not_scan_vars == <<align_vars, mq_vars, rt, conc_vars, conv, walk, filter>>
not_walk_vars == <<align_vars, mq_vars, rt, conc_vars, conv, scan, filter>>
not_filter_vars == <<align_vars, mq_vars, rt, conc_vars, conv, scan, walk>>

EmptyGraph == MkGraph(<<>>, <<>>)
NoGssw == [nodes |-> <<>>, edges |-> {}, built |-> FALSE]
NoArgs == [pinned |-> FALSE, pin_left |-> FALSE, max_alt_alns |-> 1,
           multi |-> FALSE, entry_point |-> "none"]

\* the log bases gssw_dna_recover_log_base returns, in units of ln 2
LogBases == 1..MaxLogBase

NoMqArgs == [op |-> "none", max_mapping_quality |-> 0, fast_approximation |-> FALSE,
             cluster_mq |-> 0, use_cluster_mq |-> FALSE]
NoPairs == [first |-> <<>>, second |-> <<>>]
NoRoundtrip == [pc |-> "idle"]
NoHeap == [graph |-> "none", array |-> "none", records |-> <<>>]

\* the threads that call the Aligner
Tids == {1, 2}

\* a call that has not begun
NoCall == [pc |-> "idle", alignment |-> [sequence |-> <<>>, quality |-> <<>>, path |-> <<>>,
                                         score |-> 0, identity |-> NoIdentity,
                                         query_position |-> 0],
           g |-> EmptyGraph, args |-> NoArgs, full_length_bonus |-> 0,
           reversed_graph |-> EmptyGraph, align_sequence |-> <<>>, align_quality |-> <<>>,
           graph |-> NoGssw, gms |-> <<>>, err |-> "none"]

\* the fields Aligner::Aligner sets from its arguments; scaled_gap_open is set
\* by init_quality_adjusted_scores
ScoringOf(is_qual_adj) ==
    [match |-> 1, mismatch |-> 4, gap_open |-> 6, gap_extension |-> 1,
     nt_table |-> <<"A", "C", "G", "T", "N">>, score_matrix |-> <<1, -4>>,
     scaled_gap_open |-> IF is_qual_adj THEN 12 ELSE 6]

\* the state after Aligner::Aligner (log_base = 0.0) or QualAdjAligner::QualAdjAligner
\* (init_quality_adjusted_scores calls init_mapping_quality)
Init ==
    /\ pc = "idle"
    /\ qual_adj \in BOOLEAN
    /\ alignment = FreshAlignment(<<>>, <<>>)
    /\ alt_alignments = <<>>
    /\ g = EmptyGraph
    /\ args = NoArgs
    /\ entry = [alignment |-> FreshAlignment(<<>>, <<>>), alt_alignments |-> <<>>]
    /\ reversed_graph = EmptyGraph
    /\ align_sequence = <<>>
    /\ align_quality = <<>>
    /\ graph = NoGssw
    /\ gms = <<>>
    /\ err = "none"
    /\ heap = NoHeap
    /\ calls = <<>>
    /\ log_base \in (IF qual_adj THEN LogBases ELSE {0})
    /\ init_called = qual_adj
    /\ init_query = <<>>
    /\ mq_pc = "idle"
    /\ mq_args = NoMqArgs
    /\ alignment_pairs = NoPairs
    /\ mq_entry = [first |-> <<>>, second |-> <<>>, log_base |-> 0]
    /\ mq_write = {}
    /\ mq_err = "none"
    /\ rt = NoRoundtrip
    /\ aligner = ScoringOf(qual_adj)
    /\ conv = [pc |-> "idle"]
    /\ scan = [pc |-> "idle"]
    /\ walk = [pc |-> "idle"]
    /\ filter = [pc |-> "idle"]
    /\ threads = [t \in Tids |-> [call |-> NoCall, entry |-> NoCall, overlapped |-> FALSE]]

(***************************************************************************)
(* Aligner::reverse_graph                                                  *)
(***************************************************************************)
reverse_node(n) == [id |-> n.id, sequence |-> Reverse(n.sequence)]

reverse_edge(e) ==
    [from |-> e.to, to |-> e.from, from_start |-> e.to_end, to_end |-> e.from_start]

reverse_graph(gr) ==
    [node |-> Reverse([i \in 1..Len(gr.node) |-> reverse_node(gr.node[i])]),
     edge |-> [i \in 1..Len(gr.edge) |-> reverse_edge(gr.edge[i])]]

\* reverse_graph(g, reversed_graph_out): the output graph is checked for nodes
\* and then added to
reverse_graph_into(gr, out) ==
    IF Len(out.node) # 0 THEN [ok |-> FALSE, graph |-> out]
    ELSE [ok |-> TRUE,
          graph |-> [node |-> out.node \o reverse_graph(gr).node,
                     edge |-> out.edge \o reverse_graph(gr).edge]]

\* Aligner::unreverse_graph: only the node sequences are reversed back
unreverse_graph(gr) ==
    [node |-> [i \in 1..Len(gr.node) |-> reverse_node(gr.node[i])],
     edge |-> gr.edge]

(***************************************************************************)
(* Aligner::create_gssw_graph                                              *)
(***************************************************************************)
IsReversing_from_start_only(e) == e.from_start /\ ~e.to_end

IsReversing(e) == e.from_start # e.to_end

HasReversingEdge(gr) == \E i \in 1..Len(gr.edge) : IsReversing(gr.edge[i])

\* the canonical end-to-start edge an input edge is converted to
canonical_edge(e) ==
    IF ~e.from_start /\ ~e.to_end THEN <<e.from, e.to>> ELSE <<e.to, e.from>>

non_sink_nodes_from_only(gr) == {gr.edge[i].from : i \in 1..Len(gr.edge)}

non_sink_nodes(gr) == {canonical_edge(gr.edge[i])[1] : i \in 1..Len(gr.edge)}

NodeIds(gr) == [i \in 1..Len(gr.node) |-> gr.node[i].id]

create_gssw_graph(gr, add_pinning_node) ==
    [nodes |-> NodeIds(gr) \o (IF add_pinning_node THEN <<DUMMY_ID>> ELSE <<>>),
     edges |-> {canonical_edge(gr.edge[i]) : i \in 1..Len(gr.edge)}
               \cup (IF add_pinning_node
                     THEN {<<gr.node[i].id, DUMMY_ID>> :
                              i \in {k \in 1..Len(gr.node) :
                                        gr.node[k].id \notin non_sink_nodes(gr)}}
                     ELSE {}),
     built |-> TRUE]

(***************************************************************************)
(* gssw cigars.  A cigar is a sequence of elements [type, length]; a node  *)
(* cigar is [node, cigar] with node the id of the gssw node; a graph       *)
(* mapping is [score, position, cigar] with cigar a sequence of node       *)
(* cigars.                                                                 *)
(***************************************************************************)
El(t, n) == [type |-> t, length |-> n]

\* gssw_cigar_push_back: a run of the last element's type is lengthened
gssw_cigar_push_back(c, t, n) ==
    IF c = <<>> THEN <<El(t, n)>>
    ELSE IF c[Len(c)].type # t THEN Append(c, El(t, n))
    ELSE [c EXCEPT ![Len(c)].length = @ + n]

\* gssw_cigar_push_front: the same at the front
gssw_cigar_push_front(c, t, n) ==
    IF c = <<>> THEN <<El(t, n)>>
    ELSE IF c[1].type # t THEN <<El(t, n)>> \o c
    ELSE [c EXCEPT ![1].length = @ + n]

\* the node of the graph a node cigar points to (ncs[i].node->data)
NodeOf(gr, id) == CHOOSE n \in Range(gr.node) : n.id = id

\* its sequence; the dummy node points to no Node and has no sequence to read
from_node_sequence(gr, id) ==
    IF \E n \in Range(gr.node) : n.id = id THEN NodeOf(gr, id).sequence ELSE <<>>

(***************************************************************************)
(* Aligner::unreverse_graph_mapping                                        *)
(***************************************************************************)
num_ref_aligned(c) ==
    SumSeq([i \in 1..Len(c) |->
              IF c[i].type \in {"M", "X", "N", "D"} THEN c[i].length ELSE 0])

unreverse_graph_mapping(gm) ==
    LET rev == Reverse([i \in 1..Len(gm.cigar) |->
                          [gm.cigar[i] EXCEPT !.cigar = Reverse(@)]])
    IN  [score |-> gm.score,
         position |-> IF Len(rev) > 0
                      THEN rev[1].len - num_ref_aligned(rev[1].cigar)
                      ELSE 0,
         cigar |-> rev]

(***************************************************************************)
(* Aligner::gssw_mapping_to_alignment, the dummy-node excise.              *)
(* A walk returns [ok, ncs]: ok is FALSE when an assert of the walk fails. *)
(***************************************************************************)
\* right-pinned: the rewrite of the located element j of a real-node cigar
swap_deletion_right(c, j) ==
    IF j < Len(c)
    THEN LET c1 == [c EXCEPT ![j + 1].length = @ + 1]
         IN  IF c[j].length > 1 THEN [c1 EXCEPT ![j].length = @ - 1]
             ELSE RemoveAt(c1, j)
    ELSE IF c[j].length = 1 /\ c[j].type = "N" THEN [c EXCEPT ![j].type = "D"]
    ELSE IF c[j].length = 1 /\ c[j].type = "I" THEN RemoveAt(c, j)
    ELSE gssw_cigar_push_back([c EXCEPT ![j].length = @ - 1], "D", 1)

\* left-pinned: the same with a preceding deletion
swap_deletion_left(c, j) ==
    IF j > 1
    THEN LET c1 == [c EXCEPT ![j - 1].length = @ + 1]
         IN  IF c[j].length > 1 THEN [c1 EXCEPT ![j].length = @ - 1]
             ELSE RemoveAt(c1, j)
    ELSE IF c[j].length = 1 /\ c[j].type = "N" THEN [c EXCEPT ![j].type = "D"]
    ELSE IF c[j].length = 1 /\ c[j].type = "I" THEN RemoveAt(c, j)
    ELSE gssw_cigar_push_front([c EXCEPT ![j].length = @ - 1], "D", 1)

\* right-pinned walk: node cigars lo..i backwards, elements j..1 backwards
RECURSIVE walk_right_past_matches(_, _, _, _)
walk_right_past_matches(ncs, lo, i, j) ==
    IF i < lo THEN [ok |-> FALSE, ncs |-> ncs]
    ELSE IF j < 1
         THEN walk_right_past_matches(ncs, lo, i - 1,
                                      IF i - 1 >= lo THEN Len(ncs[i - 1].cigar) ELSE 0)
    ELSE IF ncs[i].cigar[j].type \in {"N", "I"}
         THEN [ok |-> TRUE,
               ncs |-> [ncs EXCEPT ![i].cigar = swap_deletion_right(@, j)]]
    ELSE walk_right_past_matches(ncs, lo, i, j - 1)

RECURSIVE walk_right(_, _, _, _)
walk_right(ncs, lo, i, j) ==
    IF i < lo THEN [ok |-> FALSE, ncs |-> ncs]
    ELSE IF j < 1
         THEN walk_right(ncs, lo, i - 1,
                         IF i - 1 >= lo THEN Len(ncs[i - 1].cigar) ELSE 0)
    ELSE IF ncs[i].cigar[j].type \in {"N", "I"}
         THEN [ok |-> TRUE,
               ncs |-> [ncs EXCEPT ![i].cigar = swap_deletion_right(@, j)]]
    ELSE IF ncs[i].cigar[j].type # "D" THEN [ok |-> FALSE, ncs |-> ncs]
    ELSE walk_right(ncs, lo, i, j - 1)

\* left-pinned walk: node cigars i..hi forwards, elements j.. forwards
RECURSIVE walk_left(_, _, _, _)
walk_left(ncs, hi, i, j) ==
    IF i > hi THEN [ok |-> FALSE, ncs |-> ncs]
    ELSE IF j > Len(ncs[i].cigar) THEN walk_left(ncs, hi, i + 1, 1)
    ELSE IF ncs[i].cigar[j].type \in {"N", "I"}
         THEN [ok |-> TRUE,
               ncs |-> [ncs EXCEPT ![i].cigar = swap_deletion_left(@, j)]]
    ELSE IF ncs[i].cigar[j].type # "D" THEN [ok |-> FALSE, ncs |-> ncs]
    ELSE walk_left(ncs, hi, i, j + 1)

\* the length of the insertion moved off the dummy node after a deleted N
dummy_insert_after_deletion(n) == n - 1

\* pin_left: the dummy node cigar is ncs[1], the real ones are 2..Len(ncs)
excise_left(ncs) ==
    LET dummy == ncs[1].cigar
        start == 2
        hi    == Len(ncs)
        deleted == dummy[Len(dummy)].type = "D"
        insert  == dummy[1].type = "I"
        walked == IF deleted /\ ~insert
                  THEN walk_left(ncs, hi, start, 1)
                  ELSE [ok |-> TRUE, ncs |-> ncs]
        ins_len == IF deleted /\ insert
                   THEN dummy_insert_after_deletion(dummy[1].length)
                   ELSE dummy[1].length
    IN  IF insert /\ start <= hi
        THEN [ok |-> walked.ok,
              ncs |-> [walked.ncs EXCEPT
                         ![start].cigar = gssw_cigar_push_front(@, "I", ins_len)]]
        ELSE walked

\* right-pinned: the dummy node cigar is the last, the real ones 1..Len(ncs)-1
excise_right(ncs) ==
    LET dummy == ncs[Len(ncs)].cigar
        hi    == Len(ncs) - 1
        deleted == dummy[1].type = "D"
        insert  == dummy[Len(dummy)].type = "I"
        walked == IF deleted /\ ~insert
                  THEN walk_right(ncs, 1, hi, IF hi >= 1 THEN Len(ncs[hi].cigar) ELSE 0)
                  ELSE [ok |-> TRUE, ncs |-> ncs]
        ins_len == IF deleted /\ insert
                   THEN dummy_insert_after_deletion(dummy[Len(dummy)].length)
                   ELSE dummy[Len(dummy)].length
    IN  IF insert /\ 1 <= hi
        THEN [ok |-> walked.ok,
              ncs |-> [walked.ncs EXCEPT
                         ![hi].cigar = gssw_cigar_push_back(@, "I", ins_len)]]
        ELSE walked

(***************************************************************************)
(* Aligner::gssw_mapping_to_alignment, the emission of edits.              *)
(***************************************************************************)
Edit(f, t, s) == [from_length |-> f, to_length |-> t, sequence |-> s]

\* s[i] of a std::string, i counted from 0; past the end the terminating 0
CharAt(s, i) == IF i + 1 \in 1..Len(s) THEN s[i + 1] ELSE "0"

\* to_seq.substr(pos, n)
Substr(s, pos, n) ==
    IF pos >= Len(s) THEN <<>>
    ELSE SubSeq(s, pos + 1, IF pos + n <= Len(s) THEN pos + n ELSE Len(s))

\* the stream of matches and SNPs of one M, X or N element: columns h..stop-1
RECURSIVE match_edits_snp_in_run(_, _, _, _, _, _)
match_edits_snp_in_run(from_seq, to_seq, h, k, stop, last_start) ==
    IF h >= stop
    THEN IF h - last_start > 0
         THEN <<Edit(h - last_start, h - last_start, <<>>)>> ELSE <<>>
    ELSE IF CharAt(from_seq, h) # CharAt(to_seq, k)
         THEN (IF h - last_start > 0
               THEN <<Edit(h - last_start, h - last_start, <<>>)>> ELSE <<>>)
              \o <<Edit(1, 1, Substr(to_seq, k, 1))>>
              \o match_edits_snp_in_run(from_seq, to_seq, h + 1, k + 1, stop, h)
    ELSE match_edits_snp_in_run(from_seq, to_seq, h + 1, k + 1, stop, last_start)

RECURSIVE match_edits(_, _, _, _, _, _)
match_edits(from_seq, to_seq, h, k, stop, last_start) ==
    IF h >= stop
    THEN IF h - last_start > 0
         THEN <<Edit(h - last_start, h - last_start, <<>>)>> ELSE <<>>
    ELSE IF CharAt(from_seq, h) # CharAt(to_seq, k)
         THEN (IF h - last_start > 0
               THEN <<Edit(h - last_start, h - last_start, <<>>)>> ELSE <<>>)
              \o <<Edit(1, 1, Substr(to_seq, k, 1))>>
              \o match_edits(from_seq, to_seq, h + 1, k + 1, stop, h + 1)
    ELSE match_edits(from_seq, to_seq, h + 1, k + 1, stop, last_start)

\* the edits of the elements j.. of one node cigar: [edits, from_pos, to_pos, ok]
RECURSIVE element_edits(_, _, _, _, _, _)
element_edits(c, j, from_seq, to_seq, from_pos, to_pos) ==
    IF j > Len(c)
    THEN [edits |-> <<>>, from_pos |-> from_pos, to_pos |-> to_pos, ok |-> TRUE]
    ELSE
    LET e == c[j]
        n == e.length
        here == IF e.type \in {"M", "X", "N"}
                THEN [edits |-> match_edits(from_seq, to_seq, from_pos, to_pos,
                                            from_pos + n, from_pos),
                      df |-> n, dt |-> n, ok |-> TRUE]
                ELSE IF e.type = "D"
                THEN [edits |-> <<Edit(n, 0, <<>>)>>, df |-> n, dt |-> 0, ok |-> TRUE]
                ELSE IF e.type \in {"I", "S"}
                THEN [edits |-> <<Edit(0, n, Substr(to_seq, to_pos, n))>>,
                      df |-> 0, dt |-> n, ok |-> TRUE]
                ELSE [edits |-> <<>>, df |-> 0, dt |-> 0, ok |-> FALSE]
        rest == element_edits(c, j + 1, from_seq, to_seq,
                              from_pos + here.df, to_pos + here.dt)
    IN  IF ~here.ok
        THEN [edits |-> <<>>, from_pos |-> from_pos, to_pos |-> to_pos, ok |-> FALSE]
        ELSE [rest EXCEPT !.edits = here.edits \o @]

\* rank of the mapping added to a path that holds n mappings already
mapping_rank(n) == n + 1

\* the loop over the node cigars i..hi: [path, ok]
RECURSIVE node_mappings(_, _, _, _, _, _, _, _)
node_mappings(gr, ncs, start, i, hi, to_seq, from_pos, acc) ==
    IF i > hi THEN [path |-> acc.path, ok |-> TRUE]
    ELSE IF Len(ncs[i].cigar) = 0
         THEN node_mappings(gr, ncs, start, i + 1, hi, to_seq, from_pos, acc)
    ELSE
    LET fp == IF i > start THEN 0 ELSE from_pos
        r  == element_edits(ncs[i].cigar, 1, from_node_sequence(gr, ncs[i].node),
                            to_seq, fp, acc.to_pos)
        m  == [position |-> [node_id |-> ncs[i].node, offset |-> fp],
               rank |-> mapping_rank(Len(acc.path)),
               edit |-> r.edits]
    IN  IF ~r.ok THEN [path |-> Append(acc.path, m), ok |-> FALSE]
        ELSE node_mappings(gr, ncs, start, i + 1, hi, to_seq, r.from_pos,
                           [path |-> Append(acc.path, m), to_pos |-> r.to_pos])

\* identity(path): matched bases over the bases of the read the path covers
edit_is_match(e) == e.from_length = e.to_length /\ e.sequence = <<>>

PathEdits(path) == Flatten([i \in 1..Len(path) |-> path[i].edit])

identity(path) ==
    LET es == PathEdits(path)
    IN  [num |-> SumSeq([i \in 1..Len(es) |->
                           IF edit_is_match(es[i]) THEN es[i].to_length ELSE 0]),
         den |-> SumSeq([i \in 1..Len(es) |-> es[i].to_length])]

\* the index range of the real node cigars
first_real_cigar(gm, pinned, pin_left) == IF pinned /\ pin_left THEN 2 ELSE 1

last_real_cigar_with_dummy(gm, pinned, pin_left) == Len(gm.cigar)

last_real_cigar(gm, pinned, pin_left) ==
    IF pinned /\ ~pin_left THEN Len(gm.cigar) - 1 ELSE Len(gm.cigar)

\* the whole conversion: [alignment, ok]; ok is FALSE when the call aborts
gssw_mapping_to_alignment(gr, gm, aln, pinned, pin_left) ==
    LET start == first_real_cigar(gm, pinned, pin_left)
        hi    == last_real_cigar(gm, pinned, pin_left)
        ex    == IF ~pinned THEN [ok |-> TRUE, ncs |-> gm.cigar]
                 ELSE IF pin_left THEN excise_left(gm.cigar)
                 ELSE excise_right(gm.cigar)
        res   == node_mappings(gr, ex.ncs, start, start, hi, aln.sequence,
                               gm.position, [path |-> <<>>, to_pos |-> 0])
        cleared == [aln EXCEPT !.path = <<>>, !.score = gm.score,
                               !.query_position = 0]
    IN  IF ~ex.ok THEN [alignment |-> cleared, ok |-> FALSE]
        ELSE IF ~res.ok
        THEN [alignment |-> [cleared EXCEPT !.path = res.path], ok |-> FALSE]
        ELSE [alignment |-> [cleared EXCEPT !.path = res.path,
                                            !.identity = identity(res.path)],
              ok |-> TRUE]

(***************************************************************************)
(* The tracebacks gssw hands over (gssw_graph_trace_back,                  *)
(* gssw_graph_trace_back_pinned_multi).  gssw is a library outside this    *)
(* repository: a traceback is any walk of the DP matrices, column by       *)
(* column ("m" a diagonal step, "d" a step along the node, "i" a step      *)
(* along the read), that gssw's traceback loop can take, with any score.   *)
(* A pinned traceback ends on the dummy node in the alignment's frame      *)
(* (right-pinned on the graph that is aligned to).                         *)
(***************************************************************************)
NullMapping == [score |-> 0, position |-> 0, cigar |-> <<>>]

NodeLen(gr, id) == IF id = DUMMY_ID THEN 1 ELSE Len(NodeOf(gr, id).sequence)

\* the paths of at most n + 1 nodes that end in node id
RECURSIVE PathsTo(_, _, _)
PathsTo(edges, id, n) ==
    {<<id>>} \cup
    (IF n = 0 THEN {}
     ELSE UNION { {Append(p, id) : p \in PathsTo(edges, e[1], n - 1)} :
                  e \in {x \in edges : x[2] = id} })

\* the column words that consume L node bases and at most r read bases with
\* at most b gap columns
RECURSIVE Words(_, _, _)
Words(L, r, b) ==
    (IF L = 0 THEN {<<>>} ELSE {})
    \cup (IF L > 0 /\ r > 0 THEN {<<"m">> \o w : w \in Words(L - 1, r - 1, b)} ELSE {})
    \cup (IF L > 0 /\ b > 0 THEN {<<"d">> \o w : w \in Words(L - 1, r, b - 1)} ELSE {})
    \cup (IF r > 0 /\ b > 0 THEN {<<"i">> \o w : w \in Words(L, r - 1, b - 1)} ELSE {})

ReadUse(w) == Cardinality({i \in 1..Len(w) : w[i] \in {"m", "i"}})
GapUse(w) == Cardinality({i \in 1..Len(w) : w[i] \in {"d", "i"}})

\* one word per node of a path: Ls the node bases each node contributes
RECURSIVE WordSeqs(_, _, _)
WordSeqs(Ls, r, b) ==
    IF Ls = <<>> THEN {<<>>}
    ELSE UNION { {<<w>> \o ws : ws \in WordSeqs(Tail(Ls), r - ReadUse(w), b - GapUse(w))} :
                 w \in Words(Head(Ls), r, b) }

\* the type gssw gives a diagonal step
MatchType(a, c) == IF a = "N" \/ c = "N" THEN "N" ELSE IF a = c THEN "M" ELSE "X"

\* the cigar of one node from its column word
RECURSIVE WordCigar(_, _, _, _, _, _)
WordCigar(w, j, from_seq, h, to_seq, k) ==
    IF j > Len(w) THEN <<>>
    ELSE IF w[j] = "m"
         THEN gssw_cigar_push_front(
                  WordCigar(w, j + 1, from_seq, h + 1, to_seq, k + 1),
                  MatchType(CharAt(from_seq, h), CharAt(to_seq, k)), 1)
    ELSE IF w[j] = "d"
         THEN gssw_cigar_push_front(
                  WordCigar(w, j + 1, from_seq, h + 1, to_seq, k), "D", 1)
    ELSE gssw_cigar_push_front(
                  WordCigar(w, j + 1, from_seq, h, to_seq, k + 1), "I", 1)

\* the node cigars of a path from its words; k the read offset of the first
RECURSIVE PathCigars(_, _, _, _, _, _)
PathCigars(gr, path, ws, pos, to_seq, k) ==
    IF path = <<>> THEN <<>>
    ELSE <<[node |-> Head(path), len |-> NodeLen(gr, Head(path)),
            cigar |-> WordCigar(Head(ws), 1, NodeOf(gr, Head(path)).sequence,
                                pos, to_seq, k)]>>
         \o PathCigars(gr, Tail(path), Tail(ws), 0, to_seq, k + ReadUse(Head(ws)))

SoftClipped(ncs, s) ==
    IF s = 0 THEN ncs
    ELSE [ncs EXCEPT ![1].cigar = gssw_cigar_push_front(@, "S", s)]

\* the cigars gssw can leave on the dummy node when rem read bases are left
DummyCigars(rem) ==
    (IF rem = 0 THEN {<<El("D", 1)>>} ELSE {})
    \cup (IF rem = 1 THEN {<<El("N", 1)>>} ELSE {})
    \cup (IF rem >= 1 /\ rem <= MaxDummyIns THEN {<<El("D", 1), El("I", rem)>>} ELSE {})
    \cup (IF rem >= 2 /\ rem - 1 <= MaxDummyIns
          THEN {<<El("N", 1), El("I", rem - 1)>>} ELSE {})

DummyNodeCigar(c) == [node |-> DUMMY_ID, len |-> 1, cigar |-> c]

\* a node cigar without elements, for a node the traceback ended on entering
EmptyNodeCigar(gr, id) == [node |-> id, len |-> NodeLen(gr, id), cigar |-> <<>>]

WordsRead(ws) == SumSeq([i \in 1..Len(ws) |-> ReadUse(ws[i])])

\* the cigars (without score) of the pinned tracebacks over a non-empty graph
PinnedCigars(gr, gedges, to_seq, b) ==
    UNION { UNION { UNION { UNION {
        LET ncs == SoftClipped(PathCigars(gr, p, ws, pos, to_seq, s), s)
            rem == Len(to_seq) - s - WordsRead(ws)
            lead == {<<>>} \cup
                    (IF pos = 0 /\ s = 0
                     THEN {<<EmptyNodeCigar(gr, pe[1])>> :
                              pe \in {x \in gedges : x[2] = p[1]}}
                     ELSE {})
        IN  { [position |-> pos,
               cigar |-> l \o ncs \o <<DummyNodeCigar(d)>>] :
              d \in DummyCigars(rem), l \in lead }
        : ws \in { x \in WordSeqs([t \in 1..Len(p) |->
                                     NodeLen(gr, p[t]) - (IF t = 1 THEN pos ELSE 0)],
                                  Len(to_seq) - s, b) :
                     s > 0 => x[1][1] = "m" } }
        : s \in 0..(Len(to_seq) - 1) }
        : pos \in 0..(NodeLen(gr, p[1]) - 1) }
        : p \in UNION { PathsTo(gedges \ {y \in gedges : y[2] = DUMMY_ID},
                                se[1], Len(gr.node) - 1) :
                        se \in {x \in gedges : x[2] = DUMMY_ID} } }

\* the pinned tracebacks over an empty graph: the dummy node alone
DummyOnlyCigars(to_seq) ==
    { [position |-> 0, cigar |-> <<DummyNodeCigar(d)>>] :
      d \in DummyCigars(Len(to_seq)) \ {<<El("D", 1)>>} }

Scored(cs, lo, hi) ==
    { [score |-> sc, position |-> c.position, cigar |-> c.cigar] :
      sc \in lo..hi, c \in cs }

\* every traceback of a pinned call, the null one included
PinnedTracebacks(gr, gg, to_seq, b) ==
    {NullMapping} \cup
    Scored(IF Len(gr.node) = 0 THEN DummyOnlyCigars(to_seq)
           ELSE PinnedCigars(gr, gg.edges, to_seq, b), 1, MaxScore)

\* the cigars of the local tracebacks: they start and end on a diagonal step
LocalCigars(gr, gedges, to_seq, b) ==
    UNION { UNION { UNION { UNION {
        { [position |-> pos,
           cigar |-> LET ncs == SoftClipped(PathCigars(gr, p, ws, pos, to_seq, s), s)
                         rem == Len(to_seq) - s - WordsRead(ws)
                     IN  IF rem = 0 THEN ncs
                         ELSE [ncs EXCEPT ![Len(ncs)].cigar =
                                             gssw_cigar_push_back(@, "S", rem)]]
          : ws \in { x \in WordSeqs([t \in 1..Len(p) |->
                                       IF t = Len(p)
                                       THEN last - (IF t = 1 THEN pos ELSE 0)
                                       ELSE NodeLen(gr, p[t]) - (IF t = 1 THEN pos ELSE 0)],
                                    Len(to_seq) - s, b) :
                       /\ x[1][1] = "m"
                       /\ x[Len(x)][Len(x[Len(x)])] = "m" } }
        : last \in (IF Len(p) = 1 THEN pos + 1 ELSE 1)..NodeLen(gr, p[Len(p)]) }
        : s \in 0..(Len(to_seq) - 1) }
        : pos \in 0..(NodeLen(gr, p[1]) - 1) }
        : p \in UNION { PathsTo(gedges, id, Len(gr.node) - 1) : id \in Range(NodeIds(gr)) } }

LocalTracebacks(gr, gg, to_seq, b) ==
    {NullMapping} \cup Scored(LocalCigars(gr, gg.edges, to_seq, b), 1, MaxScore)

\* the arrays of n tracebacks, best first; the absent ones are null
RECURSIVE TracebackArrays(_, _, _)
TracebackArrays(tbs, n, top) ==
    IF n = 0 THEN {<<>>}
    ELSE UNION { {<<t>> \o rest : rest \in TracebackArrays(tbs, n - 1, t.score)} :
                 t \in {x \in tbs : x.score <= top} }

(***************************************************************************)
(* Aligner::align_internal, QualAdjAligner::align_internal: helpers.       *)
(***************************************************************************)
\* the graph that is aligned to: align_graph points to g or to reversed_graph
align_graph == IF args.pinned /\ args.pin_left THEN reversed_graph ELSE g

\* the gap budget of the tracebacks of this call
IndelBudget == IF args.multi THEN MaxIndelMulti ELSE MaxIndel

\* the mapping inferred from the pinning when gssw reports no positive score
synthesized_mapping(aln, gr, pin_left) ==
    [position |-> IF pin_left
                  THEN [node_id |-> gr.node[1].id, offset |-> 0]
                  ELSE [node_id |-> gr.node[Len(gr.node)].id,
                        offset |-> Len(gr.node[Len(gr.node)].sequence)],
     rank |-> 1,
     edit |-> <<Edit(0, Len(aln.sequence), aln.sequence)>>]

\* alignment.mutable_path()->add_mapping(): the path is not cleared first
synthesize_soft_clip(aln, gr, pin_left) ==
    [aln EXCEPT !.path = Append(@, synthesized_mapping(aln, gr, pin_left))]

\* the first index i >= 1 (0-based) with gms[i]->score <= 0, or max_alt_alns
num_non_null_none(ms, max_alt_alns) == 1

num_non_null(ms, max_alt_alns) ==
    LET null == {i \in 1..(max_alt_alns - 1) : ms[i + 1].score <= 0}
    IN  IF null = {} THEN max_alt_alns
        ELSE CHOOSE i \in null : \A k \in null : i <= k

\* gms[0]->score > 0: gssw identified a mapping that is converted normally
has_mapping_never(gm) == FALSE

has_mapping(gm) == gm.score > 0

\* the vector after the primary is copied and the alternates are appended
multi_alignments_primary_last(alts, aln, converted) == alts \o converted \o <<aln>>

multi_alignments_result(alts, aln, converted) == alts \o <<aln>> \o converted

\* the Alignment an alternate is converted into: Alignment() with the read
next_alignment(aln) == FreshAlignment(aln.sequence, aln.quality)

\* the alternates 1..num_non_null-1 (0-based), in the order they are appended
converted_alternates(gr, ms, aln, n, pinned, pin_left) ==
    [i \in 1..(n - 1) |->
        gssw_mapping_to_alignment(gr, ms[i + 1],
                                  next_alignment(aln), pinned, pin_left)]

\* what the entry point does with a vector that is not empty
rejects_non_empty(is_qual_adj) == ~is_qual_adj

(***************************************************************************)
(* The entry points.  A call takes the read, the graph, the Alignment the  *)
(* caller holds (fresh, or carrying an earlier path) and, for the quality  *)
(* adjusted aligner, a quality string.                                     *)
(***************************************************************************)
Qualities(seq) == IF qual_adj THEN {QualityOf(seq), <<>>} ELSE {<<>>}

CallerAlignments(seq) ==
    UNION { {FreshAlignment(seq, q), StaleAlignment(seq, q)} : q \in Qualities(seq) }

\* vectors of alternates a caller may pass: empty, or holding an Alignment
CallerVectors(seq) == { <<>>, <<FreshAlignment(seq, <<>>)>> }

Enter(aln, gr, alts, a) ==
    /\ alignment' = aln
    /\ g' = gr
    /\ alt_alignments' = alts
    /\ args' = a
    /\ entry' = [alignment |-> aln, alt_alignments |-> alts]
    /\ heap' = NoHeap
    /\ calls' = <<>>
    /\ UNCHANGED <<qual_adj, reversed_graph, align_sequence, align_quality, graph, gms>>
    /\ UNCHANGED not_align_vars

\* Aligner::align, QualAdjAligner::align
align ==
    /\ pc = "idle"
    /\ \E seq \in Reads, gr \in Graphs :
         \E aln \in CallerAlignments(seq) :
            Enter(aln, gr, <<>>,
                  [pinned |-> FALSE, pin_left |-> FALSE, max_alt_alns |-> 1,
                   multi |-> FALSE, entry_point |-> "align"])
    /\ pc' = "validate"
    /\ err' = "none"

\* Aligner::align_pinned, QualAdjAligner::align_pinned
align_pinned ==
    /\ pc = "idle"
    /\ \E seq \in Reads, gr \in Graphs, left \in BOOLEAN :
         \E aln \in CallerAlignments(seq) :
            Enter(aln, gr, <<>>,
                  [pinned |-> TRUE, pin_left |-> left, max_alt_alns |-> 1,
                   multi |-> FALSE, entry_point |-> "align_pinned"])
    /\ pc' = "validate"
    /\ err' = "none"

\* Aligner::align_pinned_multi, QualAdjAligner::align_pinned_multi
align_pinned_multi ==
    /\ pc = "idle"
    /\ \E seq \in Reads, gr \in Graphs, left \in BOOLEAN, n \in 1..MaxAlt :
         \E aln \in CallerAlignments(seq), alts \in CallerVectors(seq) :
            /\ Enter(aln, gr, alts,
                     [pinned |-> TRUE, pin_left |-> left, max_alt_alns |-> n,
                      multi |-> TRUE, entry_point |-> "align_pinned_multi"])
            /\ IF Len(alts) # 0 /\ rejects_non_empty(qual_adj)
               THEN pc' = "fatal" /\ err' = "NonEmptyAltBuffer"
               ELSE pc' = "validate" /\ err' = "none"

\* the graphs of the direct calls of align_internal
DirectGraphs == {gr \in Graphs : Len(gr.node) <= 1}

\* align_internal called with any combination of its arguments;
\* multi_alignments is nullptr or points to the caller's vector
align_internal ==
    /\ pc = "idle"
    /\ \E seq \in Reads, gr \in DirectGraphs, n \in 1..MaxAlt,
          is_pinned \in BOOLEAN, left \in BOOLEAN, is_multi \in BOOLEAN :
         \E aln \in CallerAlignments(seq) :
            Enter(aln, gr, <<>>,
                  [pinned |-> is_pinned, pin_left |-> left, max_alt_alns |-> n,
                   multi |-> is_multi, entry_point |-> "align_internal"])
    /\ pc' = "validate"
    /\ err' = "none"

(***************************************************************************)
(* align_internal, step by step.                                           *)
(***************************************************************************)
Fatal(e) == pc' = "fatal" /\ err' = e

\* check input integrity: the error of the first check that fails, or "none"
validation_error_pin_only(a) ==
    IF a.pin_left /\ ~a.pinned THEN "PinLeftWithoutPin" ELSE "none"

validation_error(a) ==
    IF a.pin_left /\ ~a.pinned THEN "PinLeftWithoutPin"
    ELSE IF a.multi /\ ~a.pinned THEN "MultiAltWithoutPin"
    ELSE IF ~a.multi /\ a.max_alt_alns # 1 THEN "MultiAltMismatch"
    ELSE "none"

Validate ==
    /\ pc = "validate"
    /\ IF validation_error(args) # "none" THEN Fatal(validation_error(args))
       ELSE pc' = "prepare" /\ err' = err
    /\ calls' = Append(calls, "check_arguments")
    /\ UNCHANGED <<qual_adj, alignment, alt_alignments, g, args, entry, reversed_graph,
                   align_sequence, align_quality, graph, gms, heap>>
    /\ UNCHANGED not_align_vars

\* the quality adjusted aligner needs one quality byte per base of the copy
quality_length_mismatch_never(is_qual_adj, sq, ql) == FALSE

quality_length_mismatch(is_qual_adj, sq, ql) == is_qual_adj /\ Len(ql) # Len(sq)

\* the reversed graph and the copies of the read that are aligned
Prepare ==
    /\ pc = "prepare"
    /\ reversed_graph' = IF args.pin_left THEN reverse_graph(g) ELSE reversed_graph
    /\ align_sequence' =
         (IF args.pin_left THEN Reverse(alignment.sequence) ELSE alignment.sequence)
         \o (IF args.pinned THEN <<"N">> ELSE <<>>)
    /\ align_quality' =
         IF qual_adj
         THEN (IF args.pin_left THEN Reverse(alignment.quality) ELSE alignment.quality)
              \o (IF args.pinned THEN <<0>> ELSE <<>>)
         ELSE align_quality
    /\ IF quality_length_mismatch(qual_adj, align_sequence', align_quality')
       THEN Fatal("QualityLengthMismatch")
       ELSE pc' = "build" /\ err' = err
    /\ calls' = calls \o (IF args.pin_left THEN <<"reverse_graph">> ELSE <<>>)
    /\ UNCHANGED <<qual_adj, alignment, alt_alignments, g, args, entry, graph, gms, heap>>
    /\ UNCHANGED not_align_vars

\* gssw_graph_create, the first statement of create_gssw_graph
graph_created(h) == [h EXCEPT !.graph = "live"]

\* gssw_graph_trace_back_pinned_multi hands over an array of max_alt_alns
\* records, gssw_graph_trace_back a single record
traced_back(h, pinned, n) ==
    [h EXCEPT !.array = IF pinned THEN "live" ELSE "none",
              !.records = [i \in 1..(IF pinned THEN n ELSE 1) |-> "live"]]

\* the end of align_internal: gssw_graph_mapping_destroy on each record,
\* free(gms) if pinned, gssw_graph_destroy
released(h) ==
    [graph |-> "freed",
     array |-> IF h.array = "live" THEN "freed" ELSE h.array,
     records |-> [i \in 1..Len(h.records) |-> "freed"]]

\* create_gssw_graph
BuildDP ==
    /\ pc = "build"
    /\ heap' = graph_created(heap)
    /\ calls' = calls \o <<"gssw_graph_create">>
                      \o (IF ~HasReversingEdge(align_graph) /\ args.pinned
                          THEN <<"add_pinning_node">> ELSE <<>>)
    /\ IF HasReversingEdge(align_graph)
       THEN Fatal("ReversingEdgeUnsupported") /\ graph' = graph
       ELSE /\ graph' = create_gssw_graph(align_graph, args.pinned)
            /\ pc' = "trace" /\ err' = err
    /\ UNCHANGED <<qual_adj, alignment, alt_alignments, g, args, entry, reversed_graph,
                   align_sequence, align_quality, gms>>
    /\ UNCHANGED not_align_vars

\* where the call goes after the traceback: if (pin_left) the graph and the
\* mappings are translated into original node space first
after_traceback_converts(a) == "convert"

after_traceback(a) == IF a.pinned /\ a.pin_left THEN "unreverse" ELSE "convert"

\* gssw_graph_fill_pinned and the traceback
Traceback ==
    /\ pc = "trace"
    /\ IF args.pinned
       THEN gms' \in TracebackArrays(
                        PinnedTracebacks(align_graph, graph, align_sequence, IndelBudget),
                        args.max_alt_alns, MaxScore)
       ELSE \E gm \in LocalTracebacks(align_graph, graph, align_sequence, IndelBudget) :
               gms' = <<gm>>
    /\ pc' = after_traceback(args)
    /\ heap' = traced_back(heap, args.pinned, args.max_alt_alns)
    /\ calls' = calls \o <<"gssw_graph_fill_pinned",
                           IF args.pinned THEN "gssw_graph_trace_back_pinned_multi"
                           ELSE "gssw_graph_trace_back">>
    /\ UNCHANGED <<qual_adj, alignment, alt_alignments, g, args, entry, reversed_graph,
                   align_sequence, align_quality, graph, err>>
    /\ UNCHANGED not_align_vars

\* translate graph and mappings into original node space
Unreverse ==
    /\ pc = "unreverse"
    /\ reversed_graph' = unreverse_graph(reversed_graph)
    /\ gms' = [i \in 1..Len(gms) |-> unreverse_graph_mapping(gms[i])]
    /\ pc' = "convert"
    /\ calls' = calls \o <<"unreverse_graph">>
                      \o [i \in 1..args.max_alt_alns |-> "unreverse_graph_mapping"]
    /\ UNCHANGED <<qual_adj, alignment, alt_alignments, g, args, entry,
                   align_sequence, align_quality, graph, err, heap>>
    /\ UNCHANGED not_align_vars

\* the primary: converted from the traceback, or inferred from the pinning
primary_alignment_pinned_in_place(aln, gr, agr, gm, pinned, pin_left) ==
    LET pinned_aln == [aln EXCEPT !.sequence = IF pinned THEN Append(@, "N") ELSE @]
    IN  IF ~pinned \/ has_mapping(gm)
        THEN gssw_mapping_to_alignment(agr, gm, pinned_aln, pinned, pin_left)
        ELSE [alignment |-> IF Len(gr.node) > 0
                            THEN synthesize_soft_clip(pinned_aln, gr, pin_left)
                            ELSE pinned_aln,
              ok |-> TRUE]

primary_alignment(aln, gr, agr, gm, pinned, pin_left) ==
    IF ~pinned \/ has_mapping(gm)
    THEN gssw_mapping_to_alignment(agr, gm, aln, pinned, pin_left)
    ELSE [alignment |-> IF Len(gr.node) > 0
                        THEN synthesize_soft_clip(aln, gr, pin_left)
                        ELSE aln,
          ok |-> TRUE]

\* convert the optimal alignment into the caller's Alignment
ConvertPrimary ==
    /\ pc = "convert"
    /\ LET r == primary_alignment(alignment, g, align_graph, gms[1],
                                  args.pinned, args.pin_left)
       IN  /\ alignment' = r.alignment
           /\ IF r.ok THEN pc' = (IF args.multi THEN "multi" ELSE "returned")
                           /\ err' = err
                           /\ heap' = IF args.multi THEN heap ELSE released(heap)
              ELSE Fatal("CigarInvariantViolated") /\ heap' = heap
           /\ calls' = calls
                \o (IF ~args.pinned \/ has_mapping(gms[1])
                    THEN <<"gssw_mapping_to_alignment">>
                    ELSE IF Len(g.node) > 0 THEN <<"soft_clip">> ELSE <<>>)
                \o (IF r.ok /\ ~args.multi THEN <<"return">> ELSE <<>>)
    /\ UNCHANGED <<qual_adj, alt_alignments, g, args, entry, reversed_graph,
                   align_sequence, align_quality, graph, gms>>
    /\ UNCHANGED not_align_vars

\* copy the primary and convert the alternates into the caller's vector
ConvertAlternates ==
    /\ pc = "multi"
    /\ LET n == num_non_null(gms, args.max_alt_alns)
           rs == converted_alternates(align_graph, gms, alignment, n,
                                      args.pinned, args.pin_left)
       IN  /\ alt_alignments' = multi_alignments_result(alt_alignments, alignment,
                                       [i \in 1..Len(rs) |-> rs[i].alignment])
           /\ IF \A i \in 1..Len(rs) : rs[i].ok
              THEN pc' = "returned" /\ err' = err /\ heap' = released(heap)
              ELSE Fatal("CigarInvariantViolated") /\ heap' = heap
           /\ calls' = calls \o <<"emplace_back">>
                \o [i \in 1..(n - 1) |-> "gssw_mapping_to_alignment"]
                \o (IF \A i \in 1..Len(rs) : rs[i].ok THEN <<"return">> ELSE <<>>)
    /\ UNCHANGED <<qual_adj, alignment, g, args, entry, reversed_graph,
                   align_sequence, align_quality, graph, gms>>
    /\ UNCHANGED not_align_vars

Next ==
    \/ align
    \/ align_internal
    \/ align_pinned
    \/ align_pinned_multi
    \/ Validate
    \/ Prepare
    \/ BuildDP
    \/ Traceback
    \/ Unreverse
    \/ ConvertPrimary
    \/ ConvertAlternates

Spec == Init /\ [][Next]_vars

(***************************************************************************)
(* Mapping quality.  The doubles of the code are held in fixed point:      *)
(* a scaled score (log_base * score) is a whole number of ln 2, so that    *)
(* exp of it is a power of two; a Phred value is held in thousandths.      *)
(***************************************************************************)
\* floor(log2(n)), n >= 1
RECURSIVE FloorLog2(_)
FloorLog2(n) == IF n < 2 THEN 0 ELSE 1 + FloorLog2(n \div 2)

\* the next `bit` binary digits of log2(x / 2^14), 2^14 <= x < 2^15, by squaring
RECURSIVE FracLog2(_, _, _)
FracLog2(x, bit, acc) ==
    IF bit = 0 THEN acc
    ELSE LET sq == (x * x) \div 16384
         IN  IF sq >= 32768 THEN FracLog2(sq \div 2, bit - 1, acc + 2^(bit - 1))
             ELSE FracLog2(sq, bit - 1, acc)

\* log2(n) in 1/1024
Log2Fix(n) ==
    FloorLog2(n) * 1024 + FracLog2((n * 16384) \div (2^FloorLog2(n)), 10, 0)

\* 10 * log10(n) in thousandths: log10(2) = 0.30103
TenLog10(n) == (Log2Fix(n) * 30103) \div 10240

\* quality_scale_factor * x in thousandths, x a whole number of ln 2
quality_scale(x) == (x * 30103) \div 10

\* (int32_t) round(x), x in thousandths; halves away from zero
Round(x) == IF x >= 0 THEN (x + 500) \div 1000 ELSE -((500 - x) \div 1000)

\* prob_to_phred(sqrt(phred_to_prob(x))): half the Phred value
phred_of_sqrt_prob(x) == x \div 2

\* the index (from 0) of the first largest of the first size scores
exact_max_idx(ss, size) ==
    CHOOSE i \in 0..(size - 1) :
        /\ \A k \in 0..(size - 1) : ss[k + 1] <= ss[i + 1]
        /\ \A k \in 0..(i - 1) : ss[k + 1] < ss[i + 1]

\* Aligner::maximum_mapping_quality_exact: size is read before the null
\* alignment's 0.0 is appended.  Both branches (the direct sum and the one
\* in log space) compute -10 log10 of numer / (numer + exp(max)); the
\* quotient is the same with every exp taken relative to the smallest score.
maximum_mapping_quality_exact(scaled_scores) ==
    LET size == Len(scaled_scores)
        ss == IF size = 1 THEN Append(scaled_scores, 0) ELSE scaled_scores
        max_idx == exact_max_idx(ss, size)
        lo == CHOOSE m \in Range(ss) : \A x \in Range(ss) : m <= x
        numer == SumSeq([i \in 1..size |->
                           IF i - 1 = max_idx THEN 0 ELSE 2^(ss[i] - lo)])
    IN  [mapping_quality |->
            IF numer = 0 THEN Infinity
            ELSE TenLog10(numer + 2^(ss[max_idx + 1] - lo)) - TenLog10(numer),
         max_idx |-> max_idx]

\* the loop of maximum_mapping_quality_approx from element i (from 1) on
RECURSIVE approx_scan_count_reset(_, _, _)
approx_scan_count_reset(ss, i, st) ==
    IF i >= Len(ss) THEN st
    ELSE LET score == ss[i + 1]
         IN  approx_scan_count_reset(ss, i + 1,
               IF score > st.max_score
               THEN [max_score |-> score, max_idx |-> i,
                     next_score |-> st.max_score, next_count |-> 1]
               ELSE IF score > st.next_score
               THEN [st EXCEPT !.next_score = score, !.next_count = 1]
               ELSE IF score = st.next_score
               THEN [st EXCEPT !.next_count = @ + 1]
               ELSE st)

RECURSIVE approx_scan(_, _, _)
approx_scan(ss, i, st) ==
    IF i >= Len(ss) THEN st
    ELSE LET score == ss[i + 1]
         IN  approx_scan(ss, i + 1,
               IF score > st.max_score
               THEN [max_score |-> score, max_idx |-> i,
                     next_score |-> st.max_score,
                     next_count |-> IF st.next_score = st.max_score
                                    THEN st.next_count + 1 ELSE 1]
               ELSE IF score > st.next_score
               THEN [st EXCEPT !.next_score = score, !.next_count = 1]
               ELSE IF score = st.next_score
               THEN [st EXCEPT !.next_count = @ + 1]
               ELSE st)

\* the single pass, from max_score = scaled_scores[0] and next_score = -DBL_MAX
approx_pass(ss) ==
    approx_scan(ss, 1, [max_score |-> ss[1], max_idx |-> 0,
                        next_score |-> DBL_LOWEST, next_count |-> 0])

\* Aligner::maximum_mapping_quality_approx: the loop runs over the vector
\* with the appended 0.0
maximum_mapping_quality_approx(scaled_scores) ==
    LET ss == IF Len(scaled_scores) = 1 THEN Append(scaled_scores, 0)
              ELSE scaled_scores
        st == approx_pass(ss)
        q  == quality_scale(st.max_score - st.next_score)
              - (IF st.next_count > 1 THEN TenLog10(st.next_count) ELSE 0)
    IN  [mapping_quality |-> IF q > 0 THEN q ELSE 0, max_idx |-> st.max_idx]

\* is_mapping_quality_initialized()
is_mapping_quality_initialized == log_base <= 0

\* the check at the head of the compute calls
mapping_quality_uninitialized_never(lb) == FALSE

mapping_quality_uninitialized(lb) == lb <= 0

\* the value handed to set_mapping_quality, in thousandths
clamped(mapping_quality, max_mapping_quality) ==
    IF mapping_quality > 1000 * max_mapping_quality
    THEN 1000 * max_mapping_quality ELSE mapping_quality

assigned_mapping_quality(mapping_quality, a) ==
    LET c == clamped(mapping_quality, a.max_mapping_quality)
    IN  IF a.use_cluster_mq THEN phred_of_sqrt_prob(1000 * a.cluster_mq + c) ELSE c

\* alignments[max_idx].set_mapping_quality(v) on a vector: an index past the
\* end writes outside the vector and leaves its elements as they are
set_mapping_quality(v, max_idx, value) ==
    IF max_idx < Len(v) THEN [v EXCEPT ![max_idx + 1].mapping_quality = value] ELSE v

(***************************************************************************)
(* The mapping quality calls on the Aligner.  Only score and               *)
(* mapping_quality of an Alignment are read or written by them.            *)
(***************************************************************************)
MqAlignment(sc) == [score |-> sc, mapping_quality |-> 0]

SeqsOver(S, n) == UNION { [1..k -> S] : k \in 0..n }

\* the vectors a caller hands over
MqVectors == { [i \in 1..Len(v) |-> MqAlignment(v[i])] : v \in SeqsOver(-1..MaxMqScore, MaxVec) }
MqSecondVectors == { [i \in 1..Len(v) |-> MqAlignment(v[i])] : v \in SeqsOver({0, 1}, MaxVec) }

\* max_mapping_quality, fast_approximation, cluster_mq, use_cluster_mq
MqArguments ==
    { [op |-> "none", max_mapping_quality |-> m, fast_approximation |-> f,
       cluster_mq |-> c[1], use_cluster_mq |-> c[2]] :
         m \in {3, 60}, f \in BOOLEAN, c \in {<<0, FALSE>>, <<0, TRUE>>, <<100, TRUE>>} }

MqAlive == mq_pc \notin {"fatal", "crashed"} /\ pc = "idle" /\ scan.pc = "idle"

\* Aligner::init_mapping_quality, QualAdjAligner::init_mapping_quality
init_mapping_quality ==
    /\ MqAlive
    /\ log_base' \in LogBases
    /\ init_called' = TRUE
    /\ UNCHANGED <<init_query, mq_pc, mq_args, alignment_pairs, mq_entry, mq_write, mq_err>>
    /\ UNCHANGED not_mq_vars

\* a call of is_mapping_quality_initialized()
query_mapping_quality_initialized ==
    /\ MqAlive
    /\ init_query' = <<[result |-> is_mapping_quality_initialized, log_base |-> log_base]>>
    /\ UNCHANGED <<log_base, init_called, mq_pc, mq_args, alignment_pairs, mq_entry,
                   mq_write, mq_err>>
    /\ UNCHANGED not_mq_vars

\* the body the two compute calls share: scores is the vector of the scores
\* that are scaled, in_first / in_second the vectors that are written
mapping_quality_call(a, pairs, scores, paired) ==
    /\ mq_args' = a
    /\ mq_entry' = [first |-> pairs.first, second |-> pairs.second, log_base |-> log_base]
    /\ IF mapping_quality_uninitialized(log_base)
       THEN /\ mq_pc' = "fatal" /\ mq_err' = "MappingQualityUninitialized"
            /\ alignment_pairs' = pairs /\ mq_write' = {}
       ELSE IF Len(scores) = 0
       THEN /\ mq_pc' = "returned" /\ mq_err' = "none"
            /\ alignment_pairs' = pairs /\ mq_write' = {}
       ELSE LET scaled_scores == [i \in 1..Len(scores) |-> log_base * scores[i]]
                r == IF ~a.fast_approximation
                     THEN maximum_mapping_quality_exact(scaled_scores)
                     ELSE maximum_mapping_quality_approx(scaled_scores)
                value == Round(assigned_mapping_quality(r.mapping_quality, a))
                in_range == /\ r.max_idx < Len(pairs.first)
                            /\ paired => r.max_idx < Len(pairs.second)
            IN  /\ alignment_pairs' =
                      [first |-> set_mapping_quality(pairs.first, r.max_idx, value),
                       second |-> IF paired
                                  THEN set_mapping_quality(pairs.second, r.max_idx, value)
                                  ELSE pairs.second]
                /\ mq_write' = {[vector |-> "first", index |-> r.max_idx, value |-> value]}
                                \cup (IF paired
                                      THEN {[vector |-> "second", index |-> r.max_idx,
                                             value |-> value]}
                                      ELSE {})
                /\ mq_err' = "none"
                /\ IF in_range THEN mq_pc' = "returned"
                   ELSE mq_pc' \in {"returned", "crashed"}
    /\ UNCHANGED <<log_base, init_called, init_query>>
    /\ UNCHANGED not_mq_vars

\* Aligner::compute_mapping_quality
compute_mapping_quality ==
    /\ MqAlive /\ mq_pc = "idle"
    /\ \E v \in MqVectors, a \in MqArguments :
          mapping_quality_call([a EXCEPT !.op = "compute_mapping_quality"],
                               [first |-> v, second |-> <<>>],
                               [i \in 1..Len(v) |-> v[i].score], FALSE)

\* Aligner::compute_paired_mapping_quality
compute_paired_mapping_quality ==
    /\ MqAlive /\ mq_pc = "idle"
    /\ \E v \in MqVectors, w \in MqSecondVectors, a \in MqArguments :
          LET size == IF Len(v) < Len(w) THEN Len(v) ELSE Len(w)
          IN  mapping_quality_call([a EXCEPT !.op = "compute_paired_mapping_quality"],
                                   [first |-> v, second |-> w],
                                   [i \in 1..size |-> v[i].score + w[i].score], TRUE)

\* Aligner::maximum_mapping_quality_approx on a vector of scaled scores of
\* any length from one: scores is the vector as the call leaves it
MaxScanLen == 4

maximum_mapping_quality_approx_pass ==
    /\ MqAlive /\ mq_pc = "idle"
    /\ \E v \in SeqsOver(-1..MaxMqScore, MaxScanLen) :
          /\ Len(v) >= 1
          /\ LET ss == IF Len(v) = 1 THEN Append(v, 0) ELSE v
             IN  scan' = [pc |-> "done", scaled_scores |-> v, scores |-> ss,
                          st |-> approx_pass(ss),
                          result |-> maximum_mapping_quality_approx(v)]
    /\ UNCHANGED not_scan_vars

MqNext ==
    \/ init_mapping_quality
    \/ query_mapping_quality_initialized
    \/ compute_mapping_quality
    \/ compute_paired_mapping_quality
    \/ maximum_mapping_quality_approx_pass

MapqSpec == Init /\ [][MqNext]_vars

(***************************************************************************)
(* A left-pinned call and the right-pinned call on the mirrored input.     *)
(* align_pinned(read, g, pin_left = true) reverses g and the read and      *)
(* aligns them right-pinned; align_pinned(reverse(read), reverse(g),       *)
(* pin_left = false) hands gssw the same graph and the same sequence, so   *)
(* the two calls get the same traceback and differ in what they do to it.  *)
(***************************************************************************)
MirrorGraphs == {gr \in Graphs : ~HasReversingEdge(gr)}

MirrorAlignment(seq, stale) ==
    IF stale THEN StaleAlignment(seq, <<>>) ELSE FreshAlignment(seq, <<>>)

\* both calls are entered
mirror_enter ==
    /\ rt.pc = "idle" /\ pc = "idle" /\ mq_pc = "idle"
    /\ \E gr \in MirrorGraphs, seq \in Reads, stale \in BOOLEAN :
          rt' = [pc |-> "trace", g |-> gr, sequence |-> seq, stale |-> stale]
    /\ UNCHANGED not_rt_vars

\* create_gssw_graph, the DP and the traceback, the same in both calls
mirror_traceback ==
    /\ rt.pc = "trace"
    /\ LET rg == reverse_graph(rt.g)
       IN  \E gm \in PinnedTracebacks(rg, create_gssw_graph(rg, TRUE),
                                      Reverse(rt.sequence) \o <<"N">>, MaxIndel) :
              rt' = [pc |-> "convert", g |-> rt.g, sequence |-> rt.sequence,
                     stale |-> rt.stale, gm |-> gm]
    /\ UNCHANGED not_rt_vars

\* the left-pinned call unreverses graph and traceback and converts; the
\* right-pinned call converts the traceback as it is
mirror_convert ==
    /\ rt.pc = "convert"
    /\ LET rg == reverse_graph(rt.g)
           left == primary_alignment(MirrorAlignment(rt.sequence, rt.stale), rt.g,
                                     unreverse_graph(rg),
                                     unreverse_graph_mapping(rt.gm), TRUE, TRUE)
           right == primary_alignment(MirrorAlignment(Reverse(rt.sequence), rt.stale),
                                      rg, rg, rt.gm, TRUE, FALSE)
       IN  rt' = [pc |-> IF left.ok /\ right.ok THEN "returned" ELSE "fatal",
                  g |-> rt.g, sequence |-> rt.sequence, stale |-> rt.stale,
                  gm |-> rt.gm, left |-> left.alignment, right |-> right.alignment]
    /\ UNCHANGED not_rt_vars

\* output graphs handed to reverse_graph: a new Graph, one holding a node,
\* one holding an edge and no node
OutputGraphs ==
    { EmptyGraph,
      MkGraph(<<MkNode(1, <<"A">>)>>, <<>>),
      MkGraph(<<>>, <<MkEdge(1, 2, FALSE, FALSE)>>) }

\* reverse_graph on a graph and an output graph, and again on its result and
\* a new output graph
reverse_graph_call ==
    /\ rt.pc = "idle" /\ pc = "idle" /\ mq_pc = "idle"
    /\ \E gr \in Graphs, out \in OutputGraphs :
          LET r == reverse_graph_into(gr, out)
          IN  rt' = [pc |-> IF r.ok THEN "reversed" ELSE "reverse_fatal",
                     g |-> gr, out |-> out, reversed |-> r.graph,
                     twice |-> reverse_graph_into(r.graph, EmptyGraph).graph]
    /\ UNCHANGED not_rt_vars

MirrorNext ==
    \/ mirror_enter
    \/ mirror_traceback
    \/ mirror_convert
    \/ reverse_graph_call

MirrorSpec == Init /\ [][MirrorNext]_vars

(***************************************************************************)
(* Two threads call align_pinned on the one Aligner, each with its own     *)
(* Alignment and Graph.  A call's locals (reversed_graph, align_sequence,  *)
(* align_quality, graph, gms, full_length_bonus) live in its own frame;    *)
(* exit() in one thread ends the process.                                  *)
(***************************************************************************)
MaxIndelConc == 0

ConcGraphs ==
    { MkGraph(<<MkNode(1, <<"A", "C">>)>>, <<>>),
      MkGraph(<<MkNode(1, <<"A">>), MkNode(2, <<"C">>)>>, <<MkEdge(1, 2, TRUE, FALSE)>>) }

ConcRead == <<"A">>

\* the graph a call aligns to
call_align_graph(c) == IF c.args.pinned /\ c.args.pin_left THEN c.reversed_graph ELSE c.g

\* align_internal up to create_gssw_graph: the integrity checks, the scaled
\* bonus of the quality adjusted aligner, the reversed graph, the copies
prepared(c, al, is_qual_adj) ==
    LET e == validation_error(c.args)
        sq == (IF c.args.pin_left THEN Reverse(c.alignment.sequence)
               ELSE c.alignment.sequence)
              \o (IF c.args.pinned THEN <<"N">> ELSE <<>>)
        ql == IF is_qual_adj
              THEN (IF c.args.pin_left THEN Reverse(c.alignment.quality)
                    ELSE c.alignment.quality)
                   \o (IF c.args.pinned THEN <<0>> ELSE <<>>)
              ELSE c.align_quality
        bad == quality_length_mismatch(is_qual_adj, sq, ql)
    IN  IF e # "none" THEN [c EXCEPT !.pc = "fatal", !.err = e]
        ELSE [c EXCEPT
                !.full_length_bonus =
                    IF is_qual_adj THEN @ * (al.scaled_gap_open \div al.gap_open) ELSE @,
                !.reversed_graph = IF c.args.pin_left THEN reverse_graph(c.g) ELSE @,
                !.align_sequence = sq,
                !.align_quality = ql,
                !.pc = IF bad THEN "fatal" ELSE "build",
                !.err = IF bad THEN "QualityLengthMismatch" ELSE "none"]

\* the step's effect on the call's frame and on the Aligner
prepare_call_scaling_gap_open(c, al, is_qual_adj) ==
    [call |-> prepared(c, al, is_qual_adj),
     aligner |-> [al EXCEPT !.gap_open = al.scaled_gap_open]]

prepare_call(c, al, is_qual_adj) ==
    [call |-> prepared(c, al, is_qual_adj), aligner |-> al]

\* create_gssw_graph
build_call(c) ==
    IF HasReversingEdge(call_align_graph(c))
    THEN [c EXCEPT !.pc = "fatal", !.err = "ReversingEdgeUnsupported"]
    ELSE [c EXCEPT !.graph = create_gssw_graph(call_align_graph(c), c.args.pinned),
                   !.pc = "trace"]

\* the DP, the traceback and, left-pinned, the translation back
trace_calls(c) ==
    LET tbs == IF c.args.pinned
               THEN TracebackArrays(PinnedTracebacks(call_align_graph(c), c.graph,
                                                     c.align_sequence, MaxIndelConc),
                                    c.args.max_alt_alns, MaxScore)
               ELSE { <<gm>> : gm \in LocalTracebacks(call_align_graph(c), c.graph,
                                                      c.align_sequence, MaxIndelConc) }
        left == c.args.pinned /\ c.args.pin_left
    IN  { [c EXCEPT !.gms = IF left
                            THEN [i \in 1..Len(ms) |-> unreverse_graph_mapping(ms[i])]
                            ELSE ms,
                    !.reversed_graph = IF left THEN unreverse_graph(@) ELSE @,
                    !.pc = "convert"] : ms \in tbs }

\* the conversion into the caller's Alignment
convert_call(c) ==
    LET r == primary_alignment(c.alignment, c.g, call_align_graph(c), c.gms[1],
                               c.args.pinned, c.args.pin_left)
    IN  [c EXCEPT !.alignment = r.alignment,
                  !.pc = IF r.ok THEN "returned" ELSE "fatal",
                  !.err = IF r.ok THEN "none" ELSE "CigarInvariantViolated"]

\* what the call gives when it runs alone, from its arguments to its end
align_internal_outcomes(c, al, is_qual_adj) ==
    LET p == prepare_call(c, al, is_qual_adj).call
        b == build_call(p)
    IN  IF p.pc = "fatal" THEN {p}
        ELSE IF b.pc = "fatal" THEN {b}
        ELSE {convert_call(t) : t \in trace_calls(b)}

InFlight(c) == c.pc \notin {"idle", "returned", "fatal"}

ConcAlive ==
    /\ pc = "idle" /\ mq_pc = "idle" /\ rt.pc = "idle"
    /\ \A u \in Tids : threads[u].call.pc # "fatal"

\* thread t takes a step that leaves its call as c and the Aligner as al
thread_step(t, c, al) ==
    /\ threads' = [threads EXCEPT
                     ![t] = [call |-> c, entry |-> @.entry,
                             overlapped |-> @.overlapped \/
                                 \E u \in Tids \ {t} : InFlight(threads[u].call)]]
    /\ aligner' = al
    /\ UNCHANGED not_conc_vars

\* Aligner::align_pinned, QualAdjAligner::align_pinned, on the thread's own
\* Alignment and Graph
thread_align_pinned(t) ==
    /\ ConcAlive
    /\ threads[t].call.pc = "idle"
    /\ \E gr \in ConcGraphs, left \in BOOLEAN, stale \in BOOLEAN :
          LET q == IF qual_adj THEN QualityOf(ConcRead) ELSE <<>>
              c == [NoCall EXCEPT
                      !.pc = "prepare",
                      !.alignment = IF stale THEN StaleAlignment(ConcRead, q)
                                    ELSE FreshAlignment(ConcRead, q),
                      !.g = gr,
                      !.full_length_bonus = 1,
                      !.args = [pinned |-> TRUE, pin_left |-> left, max_alt_alns |-> 1,
                                multi |-> FALSE, entry_point |-> "align_pinned"]]
          IN  /\ threads' = [threads EXCEPT ![t] = [call |-> c, entry |-> c,
                                                    overlapped |-> FALSE]]
              /\ UNCHANGED aligner
              /\ UNCHANGED not_conc_vars

thread_prepare(t) ==
    /\ ConcAlive
    /\ threads[t].call.pc = "prepare"
    /\ LET r == prepare_call(threads[t].call, aligner, qual_adj)
       IN  thread_step(t, r.call, r.aligner)

thread_build(t) ==
    /\ ConcAlive
    /\ threads[t].call.pc = "build"
    /\ thread_step(t, build_call(threads[t].call), aligner)

thread_traceback(t) ==
    /\ ConcAlive
    /\ threads[t].call.pc = "trace"
    /\ \E c \in trace_calls(threads[t].call) : thread_step(t, c, aligner)

thread_convert(t) ==
    /\ ConcAlive
    /\ threads[t].call.pc = "convert"
    /\ thread_step(t, convert_call(threads[t].call), aligner)

ConcNext ==
    \/ \E t \in Tids : thread_align_pinned(t)
    \/ \E t \in Tids : thread_prepare(t)
    \/ \E t \in Tids : thread_build(t)
    \/ \E t \in Tids : thread_traceback(t)
    \/ \E t \in Tids : thread_convert(t)

ConcSpec == Init /\ [][ConcNext]_vars

(***************************************************************************)
(* gssw_mapping_to_alignment on pinned tracebacks of any shape: node       *)
(* cigars over M, N, I and D on up to two nodes, and a dummy node cigar.   *)
(***************************************************************************)
MaxCigarNodes == 2
MaxCigarLen == 2
MaxRun == 2

ConvGraph ==
    MkGraph(<<MkNode(1, <<"A", "C", "A", "C">>), MkNode(2, <<"C", "A", "C", "A">>)>>,
            <<MkEdge(1, 2, FALSE, FALSE)>>)

ConvRead == <<"A", "C", "C", "A">>

ConvElements ==
    {El("M", 1), El("D", 1)} \cup {El(t, n) : t \in {"N", "I"}, n \in 1..MaxRun}

ConvCigars == SeqsOver(ConvElements, MaxCigarLen)

\* the real node cigars: on node 1, or on nodes 1 and 2
ConvNodeCigars ==
    UNION { { [i \in 1..k |-> [node |-> i, len |-> 4, cigar |-> cs[i]]] :
              cs \in [1..k -> ConvCigars] } : k \in 0..MaxCigarNodes }

\* the dummy node cigar: N matched, N deleted, or N deleted beside an insertion
ConvDummyCigars(pin_left) ==
    { <<El("N", 1)>>, <<El("D", 1)>>,
      IF pin_left THEN <<El("I", 1), El("D", 1)>> ELSE <<El("D", 1), El("I", 1)>> }

\* a traceback is handed to the conversion
conv_enter ==
    /\ conv.pc = "idle" /\ pc = "idle" /\ mq_pc = "idle" /\ rt.pc = "idle"
    /\ \A t \in Tids : threads[t].call.pc = "idle"
    /\ \E left \in BOOLEAN, real \in ConvNodeCigars :
         \E d \in ConvDummyCigars(left) :
            conv' = [pc |-> "convert", pin_left |-> left,
                     gm |-> [score |-> 1, position |-> 0,
                             cigar |-> IF left THEN <<DummyNodeCigar(d)>> \o real
                                       ELSE real \o <<DummyNodeCigar(d)>>]]
    /\ UNCHANGED not_conv_vars

\* gssw_mapping_to_alignment: the path cleared, the dummy node excised (in
\* place, in the traceback's cigars), the edits emitted
conv_convert ==
    /\ conv.pc = "convert"
    /\ LET r == gssw_mapping_to_alignment(ConvGraph, conv.gm,
                                          StaleAlignment(ConvRead, <<>>),
                                          TRUE, conv.pin_left)
           x == IF conv.pin_left THEN excise_left(conv.gm.cigar)
                ELSE excise_right(conv.gm.cigar)
       IN  conv' = [pc |-> IF r.ok THEN "returned" ELSE "fatal",
                    pin_left |-> conv.pin_left, gm |-> conv.gm,
                    cigar_after |-> x.ncs, alignment |-> r.alignment]
    /\ UNCHANGED not_conv_vars

\* one M, X or N element of the emission loop, on any node and read
\* sequences it lies within
MaxSeqLen == 3

ConvSeqs == SeqsOver({"A", "C"}, MaxSeqLen) \ {<<>>}

conv_match_element ==
    /\ conv.pc = "idle" /\ pc = "idle" /\ mq_pc = "idle" /\ rt.pc = "idle"
    /\ \A t \in Tids : threads[t].call.pc = "idle"
    /\ \E from_seq \in ConvSeqs, to_seq \in ConvSeqs, type \in {"M", "X", "N"} :
         \E from_pos \in 0..(Len(from_seq) - 1), to_pos \in 0..(Len(to_seq) - 1) :
            \E length \in 1..MaxSeqLen :
               /\ from_pos + length <= Len(from_seq)
               /\ to_pos + length <= Len(to_seq)
               /\ LET r == element_edits(<<El(type, length)>>, 1, from_seq, to_seq,
                                         from_pos, to_pos)
                  IN  conv' = [pc |-> "element", from_seq |-> from_seq, to_seq |-> to_seq,
                               type |-> type, length |-> length,
                               from_pos |-> from_pos, to_pos |-> to_pos,
                               edits |-> r.edits,
                               from_pos_after |-> r.from_pos, to_pos_after |-> r.to_pos]
    /\ UNCHANGED not_conv_vars

ConvNext ==
    \/ conv_enter
    \/ conv_convert
    \/ conv_match_element

ConvSpec == Init /\ [][ConvNext]_vars

(***************************************************************************)
(* ReadRestrictedTraversalFinder::find_traversals, the walk along one      *)
(* embedded path of the graph through a site with at most one child site.  *)
(* A node traversal is <<node id, backward>>; a mapping of the path is     *)
(* [node, is_reverse]; mapping 0 is the null pointer traverse_left and     *)
(* traverse_right return at the ends of the path.                          *)
(***************************************************************************)
NULL == 0

max_path_search_steps == 8

Mapping(n, r) == [node |-> n, is_reverse |-> r]

ForwardPaths == { <<1, 2, 3, 4>>, <<1, 2, 5, 3, 4>>, <<1, 4>> }

\* a path embedded along the forward strand, or along the reverse strand
EmbeddedPaths ==
    { [i \in 1..Len(ns) |-> Mapping(ns[i], FALSE)] : ns \in ForwardPaths } \cup
    { Reverse([i \in 1..Len(ns) |-> Mapping(ns[i], TRUE)]) : ns \in ForwardPaths }

\* the site, read in either direction
Sites == { [start |-> <<1, FALSE>>, end |-> <<4, FALSE>>],
           [start |-> <<4, TRUE>>, end |-> <<1, TRUE>>] }

\* the child sites: none, or the one from node 2 to node 3
ChildSite(id) == [start |-> <<2, FALSE>>, end |-> <<3, FALSE>>]

ChildSets == { {}, {1} }

\* the maps that let the walk skip over child sites
child_site_starts_of(children) ==
    [k \in {ChildSite(c).start : c \in children} |->
        CHOOSE c \in children : ChildSite(c).start = k]

child_site_ends_of(children) ==
    [k \in {<<ChildSite(c).end[1], ~ChildSite(c).end[2]>> : c \in children} |->
        CHOOSE c \in children : <<ChildSite(c).end[1], ~ChildSite(c).end[2]>> = k]

\* graph.paths.traverse_left / traverse_right
traverse(path, i, traversal_direction) ==
    LET j == IF traversal_direction THEN i - 1 ELSE i + 1
    IN  IF j \in 1..Len(path) THEN j ELSE NULL

\* the loop that skips a site: the mapping on the other side and the steps
\* taken, or mapping -1 when the loop runs off the path and reads through
\* the null mapping
RECURSIVE skip_site(_, _, _, _, _)
skip_site(path, i, traversal_direction, opposite, count) ==
    IF i = NULL THEN [mapping |-> -1, count |-> count]
    ELSE IF path[i].node = opposite THEN [mapping |-> i, count |-> count]
    ELSE skip_site(path, traverse(path, i, traversal_direction),
                   traversal_direction, opposite, count + 1)

\* find_traversals begins on the path's mapping to the start node
find_traversals ==
    /\ walk.pc = "idle" /\ pc = "idle" /\ mq_pc = "idle" /\ rt.pc = "idle"
    /\ conv.pc = "idle" /\ scan.pc = "idle"
    /\ \A t \in Tids : threads[t].call.pc = "idle"
    /\ \E site \in Sites, path \in EmbeddedPaths, children \in ChildSets :
         \E i \in 1..Len(path) :
            /\ path[i].node = site.start[1]
            /\ LET traversal_direction == path[i].is_reverse # site.start[2]
               IN  walk' = [pc |-> "walking", site |-> site, path |-> path,
                            children |-> children,
                            child_site_starts |-> child_site_starts_of(children),
                            child_site_ends |-> child_site_ends_of(children),
                            mapping |-> i, traversal_count |-> 0,
                            traversal_direction |-> traversal_direction,
                            expected_end_orientation |->
                                site.end[2] # traversal_direction,
                            path_traversed |-> <<>>]
    /\ UNCHANGED not_walk_vars

\* the visit of an ordinary node, and the visit that skips a child site
\* entered at its start
Visit(nt, child, backward) ==
    [at |-> nt, node |-> nt[1], backward |-> backward, child |-> child]

\* the walk goes on from a visit: over the site to its other side, or one
\* mapping along the path
walk_on(w, visit, starts, opposite) ==
    LET sk == skip_site(w.path, w.mapping, w.traversal_direction, opposite,
                        w.traversal_count)
    IN  IF opposite # NULL
        THEN IF sk.mapping = -1
             THEN [w EXCEPT !.pc = "crashed", !.child_site_starts = starts,
                            !.path_traversed = Append(@, visit)]
             ELSE [w EXCEPT !.child_site_starts = starts,
                            !.path_traversed = Append(@, visit),
                            !.mapping = sk.mapping, !.traversal_count = sk.count]
        ELSE [w EXCEPT !.child_site_starts = starts,
                       !.path_traversed = Append(@, visit),
                       !.mapping = traverse(w.path, w.mapping, w.traversal_direction),
                       !.traversal_count = @ + 1]

\* one turn of the while loop
walk_step ==
    /\ walk.pc = "walking"
    /\ IF walk.mapping = NULL \/ walk.traversal_count >= max_path_search_steps
       THEN walk' = [walk EXCEPT !.pc = "ended"]
       ELSE
       LET m == walk.path[walk.mapping]
           node_traversal == <<m.node, m.is_reverse # walk.traversal_direction>>
       IN  IF /\ node_traversal[1] = walk.site.end[1]
              /\ node_traversal[2] = walk.expected_end_orientation
           THEN walk' = [walk EXCEPT !.pc = "finished"]
           ELSE IF node_traversal \in DOMAIN walk.child_site_starts
           THEN LET child_site == walk.child_site_starts[node_traversal]
                IN  walk' = walk_on(walk, Visit(node_traversal, child_site,
                                                node_traversal[2]),
                                    walk.child_site_starts,
                                    ChildSite(child_site).end[1])
           ELSE IF node_traversal \in DOMAIN walk.child_site_ends
           THEN \* child_site_starts[node_traversal] adds the key with a null
                \* pointer, and child_site->start.node reads through it: the
                \* call crashes, or goes on with whatever was read
                LET starts == (node_traversal :> NULL) @@ walk.child_site_starts
                IN  \/ walk' = [walk EXCEPT !.pc = "crashed",
                                            !.child_site_starts = starts]
                    \/ \E garbage \in ({NULL} \cup (1..5)) \ {m.node} :
                          walk' = walk_on(walk, Visit(node_traversal, NULL, TRUE),
                                          starts, garbage)
                    \* read as this very node, the skip moves nothing and
                    \* the loop takes the same turn for ever
                    \/ walk' = [walk EXCEPT !.pc = "looping",
                                            !.child_site_starts = starts,
                                            !.path_traversed =
                                                Append(@, Visit(node_traversal, NULL, TRUE))]
           ELSE walk' = walk_on(walk, Visit(node_traversal, NULL, node_traversal[2]),
                                walk.child_site_starts, NULL)
    /\ UNCHANGED not_walk_vars

TraversalNext ==
    \/ find_traversals
    \/ walk_step

TraversalSpec == Init /\ [][TraversalNext]_vars

(***************************************************************************)
(* Filter::depth_filter, called again and again on one Filter.  An         *)
(* alignment is its sequence and its path; a mapping is [node, edit]; the  *)
(* depth table pos_to_edit_to_depth is a function of <<node, edit>>, zero  *)
(* where std::map would insert a new entry.                                *)
(***************************************************************************)
MaxCalls == 2

MaxMinDepth == 2

MaxEdits == 2

FilterEdits == { [from_length |-> 1, to_length |-> 1, sequence |-> ""],
                 [from_length |-> 1, to_length |-> 1, sequence |-> "A"],
                 [from_length |-> 1, to_length |-> 0, sequence |-> ""] }

FilterEditLists(n) == UNION { [1..k -> FilterEdits] : k \in 1..n }

\* alignments of no, one or two mappings; mapping i lies on node i
FilterAlignments ==
    { [sequence |-> "read", path |-> <<>>] } \cup
    { [sequence |-> "read", path |-> << [node |-> 1, edit |-> es] >>] :
        es \in FilterEditLists(MaxEdits) } \cup
    { [sequence |-> "read",
       path |-> << [node |-> 1, edit |-> es], [node |-> 2, edit |-> fs] >>] :
        es \in FilterEditLists(MaxEdits), fs \in FilterEditLists(1) }

\* Alignment()
EmptyAlignment == [sequence |-> "", path |-> <<>>]

\* an edit that matches the reference
pure_match(ee) == ee.from_length = ee.to_length /\ ee.sequence = ""

\* the loop over the edits of one mapping from edit j on: the depth table
\* after it and the edit that failed (0 when none did)
RECURSIVE depth_scan(_, _, _, _, _)
depth_scan(mapping, j, depth, min_depth, filter_matches) ==
    IF j > Len(mapping.edit) THEN [depth |-> depth, failed |-> 0]
    ELSE LET ee == mapping.edit[j]
             key == <<mapping.node, ee>>
             counted == [depth EXCEPT ![key] = @ + 1]
         IN  IF pure_match(ee) /\ ~filter_matches
             THEN depth_scan(mapping, j + 1, depth, min_depth, filter_matches)
             ELSE IF counted[key] < min_depth
             THEN [depth |-> counted, failed |-> j]
             ELSE depth_scan(mapping, j + 1, counted, min_depth, filter_matches)

\* the copy in which edit j of mapping i is a match
edited_aln(aln, i, j) ==
    [aln EXCEPT !.path[i].edit[j] =
        [from_length |-> @.from_length, to_length |-> @.from_length,
         sequence |-> ""]]

\* the setters of the command line
set_filter ==
    /\ filter.pc = "idle" /\ walk.pc = "idle" /\ pc = "idle" /\ mq_pc = "idle"
    /\ rt.pc = "idle" /\ conv.pc = "idle" /\ scan.pc = "idle"
    /\ \A t \in Tids : threads[t].call.pc = "idle"
    /\ \E depth \in 1..MaxMinDepth, fm \in BOOLEAN, rm \in BOOLEAN :
          filter' = [pc |-> "set", min_depth |-> depth, filter_matches |-> fm,
                     remove_failing_alignments |-> rm,
                     pos_to_edit_to_depth |->
                        [k \in (1..2) \X FilterEdits |-> 0],
                     seen |-> [k \in (1..2) \X FilterEdits |-> 0],
                     ncalls |-> 0]
    /\ UNCHANGED not_filter_vars

\* every edit of every mapping of the alignment, seen once more
RECURSIVE observe(_, _, _)
observe(seen, aln, i) ==
    IF i > Len(aln.path) THEN seen
    ELSE LET mp == aln.path[i]
             RECURSIVE each(_, _)
             each(sn, j) ==
                IF j > Len(mp.edit) THEN sn
                ELSE each([sn EXCEPT ![<<mp.node, mp.edit[j]>>] = @ + 1], j + 1)
         IN  observe(each(seen, 1), aln, i + 1)

\* one call depth_filter(aln); only the first mapping is looked at, since the
\* return of the input stands inside the loop over the mappings, and a path
\* without mappings leaves the function with no return value at all
depth_filter ==
    /\ filter.pc \in {"set", "returned"}
    /\ filter.ncalls < MaxCalls
    /\ \E aln \in FilterAlignments :
         LET called == [filter EXCEPT !.ncalls = @ + 1, !.seen = observe(@, aln, 1)]
         IN  IF Len(aln.path) = 0
             THEN \/ filter' = [pc |-> "crashed"] @@ called
                  \/ \E garbage \in {aln, EmptyAlignment} :
                        filter' = [pc |-> "returned", aln |-> aln,
                                   result |-> garbage] @@ called
             ELSE LET r == depth_scan(aln.path[1], 1, filter.pos_to_edit_to_depth,
                                      filter.min_depth, filter.filter_matches)
                      out == IF r.failed = 0 THEN aln
                             ELSE IF filter.remove_failing_alignments
                             THEN EmptyAlignment
                             ELSE edited_aln(aln, 1, r.failed)
                  IN  filter' = [pc |-> "returned", aln |-> aln, result |-> out] @@
                                [called EXCEPT !.pos_to_edit_to_depth = r.depth]
    /\ UNCHANGED not_filter_vars

FilterNext ==
    \/ set_filter
    \/ depth_filter

FilterSpec == Init /\ [][FilterNext]_vars

(***************************************************************************)
(* Properties.                                                             *)
(***************************************************************************)
Returned == pc = "returned"

\* the Alignments the call appended to the caller's vector
NewAlternates ==
    SubSeq(alt_alignments, Len(entry.alt_alignments) + 1, Len(alt_alignments))

\* every Alignment the call emitted: the primary and the alternates
Emitted == {alignment} \cup (IF args.multi THEN Range(NewAlternates) ELSE {})

ToLength(path) ==
    SumSeq([i \in 1..Len(PathEdits(path)) |-> PathEdits(path)[i].to_length])

IsEmptyEdit(e) == e.from_length = 0 /\ e.to_length = 0 /\ e.sequence = <<>>

RanksDense(path) == \A i \in 1..Len(path) : path[i].rank = i

DummyCigarOf(gm) ==
    IF args.pin_left THEN gm.cigar[1].cigar ELSE gm.cigar[Len(gm.cigar)].cigar

CigarTypes(c) == {c[i].type : i \in 1..Len(c)}

\* C1: after every pinned call on a non-empty graph, whatever cigar gssw left
\* on the dummy node, the to_length of all edits of each emitted path sums to
\* the length of the caller's read.
C1_ToLengthCoversRead ==
    (Returned /\ args.pinned /\ Len(g.node) > 0)
        => \A a \in Emitted : ToLength(a.path) = Len(a.sequence)

\* C2: after any call no emitted edit has from_length 0, to_length 0 and an
\* empty sequence, also when the dummy node holds a deleted N and an
\* insertion of length 1.
C2_NoEmptyEdit ==
    Returned =>
        \A a \in Emitted :
            \A i \in 1..Len(PathEdits(a.path)) : ~IsEmptyEdit(PathEdits(a.path)[i])

\* C3: after any align, align_pinned or align_pinned_multi call that returns,
\* whatever path the Alignment carried before, the ranks of every emitted path
\* are 1, 2, 3, ...
C3_RanksDense ==
    Returned => \A a \in Emitted : RanksDense(a.path)

\* C4: a pinned call on a non-empty graph whose best traceback has no positive
\* score returns a path of exactly one mapping, rank 1, with the one edit
\* (0, |read|, read), at the start of the first node (left-pinned) or the end
\* of the last node (right-pinned).
C4_SynthesizedSoftClip ==
    (Returned /\ args.pinned /\ gms[1].score <= 0 /\ Len(g.node) > 0)
        => /\ Len(alignment.path) = 1
           /\ alignment.path[1].rank = 1
           /\ alignment.path[1].edit =
                 <<[from_length |-> 0, to_length |-> Len(alignment.sequence),
                    sequence |-> alignment.sequence]>>
           /\ alignment.path[1].position =
                 IF args.pin_left
                 THEN [node_id |-> g.node[1].id, offset |-> 0]
                 ELSE [node_id |-> g.node[Len(g.node)].id,
                       offset |-> Len(g.node[Len(g.node)].sequence)]

RealNodeIds(gm) == {gm.cigar[i].node : i \in 1..Len(gm.cigar)} \ {DUMMY_ID}

\* the mappings of a lie on real nodes of the traceback gm, one per node cigar
\* at most, the dummy node's cigar not counted
OnRealNodesOf(a, gm) ==
    /\ Len(a.path) <= Len(gm.cigar) - 1
    /\ \A i \in 1..Len(a.path) : a.path[i].position.node_id \in RealNodeIds(gm)

EntryCheckFails == args.multi /\ Len(entry.alt_alignments) # 0 /\ ~qual_adj

QualityCheckFails ==
    qual_adj /\ Len(entry.alignment.quality) # Len(entry.alignment.sequence)

\* C6 as stated: a call on a graph with a reversing edge ends in the
\* reversing-edge error and leaves the caller's Alignment as it was.
C6_ReversingEdgeError ==
    (HasReversingEdge(g) /\ pc \in {"returned", "fatal"})
        => /\ pc = "fatal"
           /\ err = "ReversingEdgeUnsupported"
           /\ alignment = entry.alignment

\* C6 amended: a call on a graph with a reversing edge never gets past
\* create_gssw_graph and never touches the Alignment; it ends in the
\* reversing-edge error unless an earlier check ended it (the non-empty
\* vector of Aligner::align_pinned_multi, the quality length of the
\* quality adjusted aligner).
C6_ReversingEdgeFatal ==
    (HasReversingEdge(g) /\ pc # "idle")
        => /\ pc \in {"validate", "prepare", "build", "fatal"}
           /\ alignment = entry.alignment
           /\ graph = NoGssw
           /\ gms = <<>>
           /\ pc = "fatal" =>
                 err = IF EntryCheckFails THEN "NonEmptyAltBuffer"
                       ELSE IF QualityCheckFails THEN "QualityLengthMismatch"
                       ELSE "ReversingEdgeUnsupported"

\* a left-pinned call, the edge passed through reverse_graph, ended in the error
C6_Witness ==
    /\ pc = "fatal" /\ err = "ReversingEdgeUnsupported"
    /\ args.pin_left
    /\ HasReversingEdge(g) /\ HasReversingEdge(reversed_graph)
    /\ entry.alignment.path # <<>>

\* C7: align_pinned_multi called with a vector that is not empty ends in the
\* fatal NonEmptyAltBuffer error, runs no alignment and leaves the vector as
\* it was, on the Aligner and on the QualAdjAligner.
C7_NonEmptyVectorRejected ==
    (args.entry_point = "align_pinned_multi" /\ Len(entry.alt_alignments) # 0)
        => /\ pc = "fatal"
           /\ err = "NonEmptyAltBuffer"
           /\ alt_alignments = entry.alt_alignments
           /\ gms = <<>>

\* C8: on return from align_pinned_multi with a vector that was empty, the
\* first element of the vector is the primary written into the Alignment and
\* the vector holds between 1 and max_alt_alns Alignments.
C8_PrimaryFirst ==
    (Returned /\ args.multi /\ entry.alt_alignments = <<>>)
        => /\ Len(alt_alignments) >= 1
           /\ Len(alt_alignments) <= args.max_alt_alns
           /\ alt_alignments[1] = alignment

\* the vector holds the primary and an alternate of another path
C8_Witness ==
    /\ Returned /\ args.multi /\ entry.alt_alignments = <<>>
    /\ Len(alt_alignments) = 2
    /\ alt_alignments[2].path # alt_alignments[1].path
    /\ alt_alignments[2].score # alt_alignments[1].score

PositiveAlternates == {i \in 2..args.max_alt_alns : gms[i].score > 0}

\* C10: in the vector of align_pinned_multi a traceback with score <= 0 is
\* absent and no traceback with score > 0 is left out: the vector holds the
\* primary and, in order, one Alignment for each further traceback of
\* positive score; a primary without positive score is not converted from
\* its traceback.
C10_NullTracebacksAbsent ==
    (Returned /\ args.multi)
        => /\ Len(NewAlternates) = 1 + Cardinality(PositiveAlternates)
           /\ \A k \in 2..Len(NewAlternates) :
                 gms[k].score > 0 /\ NewAlternates[k].score = gms[k].score
           /\ gms[1].score > 0 => NewAlternates[1].score = gms[1].score
           /\ gms[1].score <= 0 =>
                 /\ NewAlternates[1].score = entry.alignment.score
                 /\ NewAlternates[1].identity = entry.alignment.identity

\* both tracebacks of a call with max_alt_alns = 2 are positive and both are kept
C10_Witness ==
    /\ Returned /\ args.multi /\ args.max_alt_alns = 2
    /\ gms[1].score > 0 /\ gms[2].score > 0
    /\ Len(NewAlternates) = 2

ValidationErrors == {"PinLeftWithoutPin", "MultiAltWithoutPin", "MultiAltMismatch"}

InvalidArguments ==
    \/ args.pin_left /\ ~args.pinned
    \/ args.multi /\ ~args.pinned
    \/ ~args.multi /\ args.max_alt_alns # 1

\* C11: align_internal ends in a fatal validation error, with no graph
\* reversed, no DP graph built and the Alignment untouched, for exactly the
\* argument combinations with pin_left and not pinned, or alternates
\* requested and not pinned, or no alternates requested and max_alt_alns # 1;
\* every other combination gets past validation.
C11_ValidationRejects ==
    (pc \notin {"idle", "validate"})
        => IF InvalidArguments
           THEN /\ pc = "fatal"
                /\ err \in ValidationErrors
                /\ reversed_graph = EmptyGraph
                /\ graph = NoGssw
                /\ gms = <<>>
                /\ alignment = entry.alignment
                /\ alt_alignments = entry.alt_alignments
           ELSE err \notin ValidationErrors

\* a pinned call without a vector asked for two alignments and was rejected
C11_Witness ==
    /\ pc = "fatal" /\ err = "MultiAltMismatch"
    /\ args.pinned /\ args.pin_left /\ ~args.multi /\ args.max_alt_alns = 2
    /\ entry.alignment.path # <<>>

\* a mapping quality call has ended
MqEnded == mq_args.op # "none" /\ mq_pc # "idle"

MqPaired == mq_args.op = "compute_paired_mapping_quality"

\* the number of scores the call scaled, and score k (from 1) of them
MqSize ==
    IF MqPaired /\ Len(mq_entry.second) < Len(mq_entry.first)
    THEN Len(mq_entry.second)
    ELSE IF MqPaired THEN Len(mq_entry.first) ELSE Len(mq_entry.first)

MqScore(k) ==
    mq_entry.first[k].score + (IF MqPaired THEN mq_entry.second[k].score ELSE 0)

\* C12: the mapping quality compute_mapping_quality or
\* compute_paired_mapping_quality assigned lies in [0, max_mapping_quality],
\* whatever the scores, the method, cluster_mq and use_cluster_mq.
C12_MappingQualityInRange ==
    MqEnded =>
        \A w \in mq_write : 0 <= w.value /\ w.value <= mq_args.max_mapping_quality

WithMappingQuality(v, k, value) == [v EXCEPT ![k].mapping_quality = value]

\* C13: a compute call on non-empty vectors writes the mapping quality on
\* exactly the alignment (the two mates) of one index k inside the vector
\* (below min(|first|, |second|) if paired) whose score (summed pair score) is
\* the largest, the same value on both mates, and leaves every other
\* alignment as it was; also for one alignment of zero or negative score.
C13_WritesBestAlignment ==
    (MqEnded /\ mq_pc # "fatal" /\ MqSize > 0) =>
        /\ mq_pc = "returned"
        /\ \E k \in 1..MqSize, value \in 0..(mq_args.max_mapping_quality + 100) :
              /\ \A i \in 1..MqSize : MqScore(i) <= MqScore(k)
              /\ \A w \in mq_write : w.index = k - 1 /\ w.value = value
              /\ mq_write # {}
              /\ alignment_pairs.first = WithMappingQuality(mq_entry.first, k, value)
              /\ alignment_pairs.second =
                    IF MqPaired THEN WithMappingQuality(mq_entry.second, k, value)
                    ELSE mq_entry.second

\* -10 log10 of the share of the worse of the two scaled scores x and 0.0
PhredOverTwo(x) == TenLog10(2^(IF x >= 0 THEN x ELSE -x) + 1)

\* C14: with one score supplied both methods compute the mapping quality
\* over the two scaled scores x and 0.0: the exact one from the sum of
\* exp(x) and exp(0.0), the approximation from the distance of the two.
C14_NullAlignmentCompetes ==
    (MqEnded /\ mq_pc # "fatal" /\ MqSize = 1) =>
        LET x == mq_entry.log_base * MqScore(1)
            raw == IF mq_args.fast_approximation
                   THEN quality_scale(IF x >= 0 THEN x ELSE -x)
                   ELSE PhredOverTwo(x)
        IN  \A w \in mq_write :
               w.value = Round(assigned_mapping_quality(raw, mq_args))

\* C15: a compute call made before any init_mapping_quality call ends in the
\* fatal MappingQualityUninitialized error and writes no mapping quality,
\* also on an empty vector; once init_mapping_quality has set a positive
\* log base the call is accepted.
C15_UninitializedRejected ==
    MqEnded =>
        /\ ~init_called =>
              /\ mq_pc = "fatal" /\ mq_err = "MappingQualityUninitialized"
              /\ alignment_pairs.first = mq_entry.first
              /\ alignment_pairs.second = mq_entry.second
              /\ mq_write = {}
        /\ (init_called /\ log_base > 0) =>
              mq_pc # "fatal" /\ mq_err = "none"

\* a compute call on an empty vector of an Aligner never initialised was rejected
C15_Witness ==
    /\ MqEnded /\ ~init_called /\ mq_pc = "fatal"
    /\ mq_args.op = "compute_mapping_quality"
    /\ mq_entry.first = <<>>

\* C16: is_mapping_quality_initialized() returns false on a freshly
\* constructed Aligner and true once a positive log base is set: true in
\* exactly the states in which compute_mapping_quality does not fail as
\* uninitialized.
C16_InitializedQuery ==
    init_query # <<>> =>
        init_query[1].result = (init_query[1].log_base > 0)

\* a path without ranks and offsets: the node and the edits of each mapping
PathShape(path) ==
    [i \in 1..Len(path) |-> [node_id |-> path[i].position.node_id,
                             edit |-> path[i].edit]]

ReverseEdit(e) == [e EXCEPT !.sequence = Reverse(@)]

\* the mappings in reverse order, the edits of each in reverse order, the
\* sequences of the edits reversed
ReversePathShape(path) ==
    Reverse([i \in 1..Len(path) |->
               [node_id |-> path[i].position.node_id,
                edit |-> Reverse([k \in 1..Len(path[i].edit) |->
                                    ReverseEdit(path[i].edit[k])])]])

\* C17: on a graph without reversing edges the left-pinned alignment of a
\* read has the score of the right-pinned alignment of the reversed read
\* against the reversed graph, and the two paths are each other's reverse,
\* the dummy-node excise and the zero-score synthesized mapping included.
C17_ReverseRoundtrip ==
    rt.pc = "returned" =>
        /\ rt.left.score = rt.right.score
        /\ PathShape(rt.left.path) = ReversePathShape(rt.right.path)

\* C18: no step of an align, align_pinned or align_pinned_multi call changes
\* the caller's Graph or the sequence and quality strings of the caller's
\* Alignment: the pinning N, the zero quality byte and the reversals go to
\* the call's own copies, and of the Alignment only path, score, identity
\* and query position change.
C18_CallerInputsUnchanged ==
    [][pc # "idle" =>
          /\ g' = g
          /\ alignment'.sequence = alignment.sequence
          /\ alignment'.quality = alignment.quality]_vars

\* a left-pinned quality adjusted call has returned a new path; its copies
\* are reversed and carry the pinning N and the zero quality
C18_Witness ==
    /\ Returned /\ args.pinned /\ args.pin_left /\ qual_adj
    /\ Len(g.node) = 2
    /\ align_sequence = Reverse(alignment.sequence) \o <<"N">>
    /\ align_quality = Reverse(alignment.quality) \o <<0>>
    /\ reversed_graph.node # g.node
    /\ alignment.path # entry.alignment.path
    /\ alignment.sequence = entry.alignment.sequence

\* C19: when a call has ended, by returning or in a fatal error, the DP
\* graph, every traceback record and the traceback array it allocated have
\* been freed.
Ended == pc \in {"returned", "fatal"}

C19_AllFreed ==
    Ended =>
        /\ heap.graph # "live"
        /\ heap.array # "live"
        /\ \A i \in 1..Len(heap.records) : heap.records[i] # "live"

\* C20: two calls running concurrently on the one Aligner, each on its own
\* Alignment and Graph, end as each would have run alone, and no step of a
\* call writes a field of the Aligner or the other call's frame.
C20_ConcurrentAsSequential ==
    /\ [](\A t \in Tids :
             threads[t].call.pc \in {"returned", "fatal"} =>
                 threads[t].call \in
                     align_internal_outcomes(threads[t].entry, ScoringOf(qual_adj), qual_adj))
    /\ [][/\ aligner' = aligner
          /\ log_base' = log_base
          /\ \A t \in Tids, u \in Tids :
                (t # u /\ threads'[t] # threads[t]) => threads'[u] = threads[u]]_vars

\* both calls have returned a path, one left-pinned and one right-pinned, and
\* each took steps while the other was in flight
C20_Witness ==
    /\ \A t \in Tids : /\ threads[t].call.pc = "returned"
                       /\ threads[t].overlapped
                       /\ threads[t].call.alignment.path # threads[t].entry.alignment.path
    /\ threads[1].call.args.pin_left /\ ~threads[2].call.args.pin_left
    /\ aligner = ScoringOf(qual_adj)

\* C21: a quality adjusted align, align_pinned or align_pinned_multi call
\* whose quality and sequence differ in length ends in QualityLengthMismatch
\* with no DP graph built and the Alignment and the vector as they were; when
\* the lengths agree the copies that are aligned have equal length, one more
\* than the read when pinned.
EntryPoints == {"align", "align_pinned", "align_pinned_multi"}

C21_QualityLengthChecked ==
    (qual_adj /\ args.entry_point \in EntryPoints
              /\ pc \notin {"idle", "validate", "prepare"}) =>
        IF Len(entry.alignment.quality) # Len(entry.alignment.sequence)
        THEN /\ pc = "fatal" /\ err = "QualityLengthMismatch"
             /\ heap = NoHeap /\ graph = NoGssw /\ gms = <<>>
             /\ alignment = entry.alignment
             /\ alt_alignments = entry.alt_alignments
        ELSE /\ Len(align_sequence) = Len(align_quality)
             /\ Len(align_sequence) =
                   Len(entry.alignment.sequence) + (IF args.pinned THEN 1 ELSE 0)

\* a left-pinned quality adjusted call on a read of two bases without
\* qualities has ended in the error
C21_Witness ==
    /\ qual_adj /\ args.entry_point = "align_pinned" /\ args.pin_left
    /\ Len(entry.alignment.sequence) = 2 /\ entry.alignment.quality = <<>>
    /\ pc = "fatal" /\ err = "QualityLengthMismatch"
    /\ Len(align_sequence) = 3 /\ Len(align_quality) = 1

\* C22: in every emitted path, a mapping's offset plus the node bases its
\* edits consume stays within the node's sequence.
FromLength(m) == SumSeq([j \in 1..Len(m.edit) |-> m.edit[j].from_length])

ConvDummy == IF conv.pin_left THEN conv.gm.cigar[1].cigar
             ELSE conv.gm.cigar[Len(conv.gm.cigar)].cigar

ConvReal == IF conv.pin_left THEN Tail(conv.gm.cigar)
            ELSE SubSeq(conv.gm.cigar, 1, Len(conv.gm.cigar) - 1)

\* the elements of the real node cigars in the order the walk meets them
WalkOrder ==
    LET es == Flatten([i \in 1..Len(ConvReal) |-> ConvReal[i].cigar])
    IN  IF conv.pin_left THEN es ELSE Reverse(es)

WalkLocates ==
    \E k \in 1..Len(WalkOrder) :
        /\ WalkOrder[k].type \in {"N", "I"}
        /\ \A h \in 1..(k - 1) : WalkOrder[h].type = "D"

DummyDeletedOnly == ConvDummy = <<El("D", 1)>>

C23_BlockedWalkAsserts ==
    (conv.pc \in {"returned", "fatal"} /\ DummyDeletedOnly /\ ~WalkLocates) =>
        /\ conv.pc = "fatal"
        /\ conv.alignment.path = <<>>
        /\ conv.cigar_after = conv.gm.cigar

\* right-pinned, node 1 with [1N 1M]: the walk meets the M first, the N
\* behind it is left alone
C23_Witness ==
    /\ conv.pc = "fatal" /\ ~conv.pin_left /\ DummyDeletedOnly
    /\ Len(ConvReal) = 1
    /\ ConvReal[1].cigar = <<El("N", 1), El("M", 1)>>
    /\ conv.alignment.path = <<>>

\* C24: the edits of one M, X or N element of length L cover its L columns
\* in order: a column where node and read differ is the edit (1,1,read base),
\* every maximal run of equal columns is one match edit, and no two match
\* edits are adjacent.
ColumnsOf(es) ==
    Flatten([j \in 1..Len(es) |->
               IF edit_is_match(es[j]) THEN [c \in 1..es[j].from_length |-> <<>>]
               ELSE <<es[j].sequence>>])

ExpectedColumns ==
    [i \in 1..conv.length |->
        IF conv.from_seq[conv.from_pos + i] # conv.to_seq[conv.to_pos + i]
        THEN <<conv.to_seq[conv.to_pos + i]>> ELSE <<>>]

C24_MatchElementColumns ==
    conv.pc = "element" =>
        LET es == conv.edits
        IN  /\ \A j \in 1..Len(es) :
                  \/ edit_is_match(es[j]) /\ es[j].from_length >= 1
                  \/ es[j].from_length = 1 /\ es[j].to_length = 1 /\ Len(es[j].sequence) = 1
            /\ SumSeq([j \in 1..Len(es) |-> es[j].from_length]) = conv.length
            /\ SumSeq([j \in 1..Len(es) |-> es[j].to_length]) = conv.length
            /\ ColumnsOf(es) = ExpectedColumns
            /\ \A j \in 1..(Len(es) - 1) :
                  ~(edit_is_match(es[j]) /\ edit_is_match(es[j + 1]))
            /\ conv.from_pos_after = conv.from_pos + conv.length
            /\ conv.to_pos_after = conv.to_pos + conv.length

\* three columns, the middle one a SNP: a match, the SNP, a match
C24_Witness ==
    /\ conv.pc = "element" /\ conv.length = 3
    /\ conv.from_seq = <<"A", "C", "A">> /\ conv.to_seq = <<"A", "A", "A">>
    /\ conv.edits = <<Edit(1, 1, <<>>), Edit(1, 1, <<"A">>), Edit(1, 1, <<>>)>>

\* C25: after the pass of the fast approximation over a vector of two or
\* more scores, max_score is the maximum, max_idx the first index holding
\* it, next_score the largest score once one occurrence of the maximum is
\* taken out, and next_count the number of times that score occurs in what
\* is left.
MaxOf(v) == CHOOSE x \in Range(v) : \A y \in Range(v) : y <= x

CountOf(v, x) == Cardinality({i \in 1..Len(v) : v[i] = x})

C25_ApproxPass ==
    scan.pc = "done" =>
        LET v == scan.scores
            first == CHOOSE i \in 1..Len(v) :
                        v[i] = MaxOf(v) /\ \A h \in 1..(i - 1) : v[h] # MaxOf(v)
            others == RemoveAt(v, first)
        IN  /\ Len(v) >= 2
            /\ scan.st.max_score = MaxOf(v)
            /\ scan.st.max_idx = first - 1
            /\ scan.st.next_score = MaxOf(others)
            /\ scan.st.next_count = CountOf(others, MaxOf(others))
            /\ scan.result.max_idx = first - 1

\* the maximum comes last, after a tie of two that becomes the runner-up
C25_Witness ==
    /\ scan.pc = "done"
    /\ scan.scores = <<1, 1, 2, 0>>
    /\ scan.st = [max_score |-> 2, max_idx |-> 2, next_score |-> 1, next_count |-> 2]

\* C26: the DP graph of a pinned call holds the input nodes and then the
\* dummy node, the dummy node has an edge from exactly the input nodes that
\* no canonical edge leaves and no edge out; the DP graph of a call that is
\* not pinned has no dummy node.
LeavesNode(e, id) ==
    \/ ~e.from_start /\ ~e.to_end /\ e.from = id
    \/ e.from_start /\ e.to_end /\ e.to = id

Sinks(gr) ==
    {id \in Range(NodeIds(gr)) : \A i \in 1..Len(gr.edge) : ~LeavesNode(gr.edge[i], id)}

C26_DummySink ==
    graph.built =>
        /\ \A e \in graph.edges : e[1] # DUMMY_ID
        /\ IF args.pinned
           THEN /\ graph.nodes = Append(NodeIds(align_graph), DUMMY_ID)
                /\ {e[1] : e \in {x \in graph.edges : x[2] = DUMMY_ID}} = Sinks(align_graph)
           ELSE /\ graph.nodes = NodeIds(align_graph)
                /\ \A e \in graph.edges : e[2] # DUMMY_ID

\* right-pinned, on the graph whose edge 2 -> 1 runs from start to end: it is
\* flipped to 1 -> 2, so node 2 is the sink
C26_Witness ==
    /\ graph.built /\ args.pinned /\ ~args.pin_left
    /\ Len(g.edge) = 1 /\ g.edge[1] = MkEdge(2, 1, TRUE, TRUE)
    /\ graph.nodes = <<1, 2, DUMMY_ID>>
    /\ graph.edges = {<<1, 2>>, <<2, DUMMY_ID>>}

\* C27: reverse_graph into an empty output reverses the node order and each
\* node sequence, keeps the ids, keeps the kind of every edge, and applied
\* again gives back the graph; called with an output graph that is not empty
\* it ends in the fatal error.
EdgeKind(e) ==
    IF ~e.from_start /\ ~e.to_end THEN "end_to_start"
    ELSE IF e.from_start /\ e.to_end THEN "start_to_end" ELSE "reversing"

ReversedOnce(gr, rg) ==
    /\ Len(rg.node) = Len(gr.node) /\ Len(rg.edge) = Len(gr.edge)
    /\ \A i \in 1..Len(gr.node) :
          LET n == rg.node[Len(gr.node) + 1 - i]
          IN  n.id = gr.node[i].id /\ n.sequence = Reverse(gr.node[i].sequence)
    /\ \A i \in 1..Len(gr.edge) :
          /\ rg.edge[i].from = gr.edge[i].to /\ rg.edge[i].to = gr.edge[i].from
          /\ EdgeKind(rg.edge[i]) = EdgeKind(gr.edge[i])

PhaseRank(c) ==
    CASE c = "check_arguments" -> 1
      [] c = "reverse_graph" -> 2
      [] c = "gssw_graph_create" -> 3
      [] c = "add_pinning_node" -> 4
      [] c = "gssw_graph_fill_pinned" -> 5
      [] c = "gssw_graph_trace_back_pinned_multi" -> 6
      [] c \in {"unreverse_graph", "unreverse_graph_mapping"} -> 7
      [] c = "gssw_mapping_to_alignment" -> 8
      [] c = "soft_clip" -> 9
      [] c = "return" -> 10
      [] OTHER -> 0

\* the copy of the primary into the caller's vector is no phase of its own
IsPhase(c) == c # "emplace_back"

Phases == SelectSeq(calls, IsPhase)

CountCalls(c) == Cardinality({i \in 1..Len(calls) : calls[i] = c})

C28_PhaseOrder ==
    (Returned /\ args.pinned) =>
        /\ \A i \in 1..Len(Phases) : PhaseRank(Phases[i]) > 0
        /\ \A i \in 1..(Len(Phases) - 1) :
              /\ PhaseRank(Phases[i]) <= PhaseRank(Phases[i + 1])
              /\ PhaseRank(Phases[i]) \notin {7, 8} =>
                    PhaseRank(Phases[i]) < PhaseRank(Phases[i + 1])
        /\ \A c \in {"check_arguments", "gssw_graph_create", "add_pinning_node",
                     "gssw_graph_fill_pinned", "gssw_graph_trace_back_pinned_multi",
                     "return"} : CountCalls(c) = 1
        /\ CountCalls("reverse_graph") = (IF args.pin_left THEN 1 ELSE 0)
        /\ CountCalls("unreverse_graph") = (IF args.pin_left THEN 1 ELSE 0)
        /\ CountCalls("unreverse_graph_mapping") =
              (IF args.pin_left THEN args.max_alt_alns ELSE 0)
        /\ CountCalls("soft_clip") > 0 => gms[1].score <= 0
        /\ CountCalls("soft_clip") + CountCalls("gssw_mapping_to_alignment") >=
              (IF Len(g.node) > 0 \/ gms[1].score > 0 THEN 1 ELSE 0)

\* a left-pinned call for two alignments has returned two translated paths
C28_Witness ==
    /\ Returned /\ args.pinned /\ args.pin_left /\ args.max_alt_alns = 2
    /\ CountCalls("unreverse_graph_mapping") = 2
    /\ CountCalls("gssw_mapping_to_alignment") = 2
    /\ calls[Len(calls)] = "return"

\* C29: a visit recorded where the walk reaches a child site from its end
\* side names that child, with backward set, the walk does not crash there,
\* and the maps child_site_starts and child_site_ends stay as they were
\* built.
C29_EndSideVisit ==
    walk.pc # "idle" =>
        /\ walk.pc # "crashed"
        /\ walk.child_site_starts = child_site_starts_of(walk.children)
        /\ walk.child_site_ends = child_site_ends_of(walk.children)
        /\ \A i \in 1..Len(walk.path_traversed) :
              LET v == walk.path_traversed[i]
              IN  v.at \in DOMAIN walk.child_site_ends =>
                     /\ v.child = walk.child_site_ends[v.at]
                     /\ v.backward

\* the edits of the last input that the filter is to count
Counted(i, j) ==
    /\ i \in 1..Len(filter.aln.path)
    /\ j \in 1..Len(filter.aln.path[i].edit)
    /\ (pure_match(filter.aln.path[i].edit[j]) => filter.filter_matches)

Fails(i, j) ==
    /\ Counted(i, j)
    /\ filter.seen[<<filter.aln.path[i].node, filter.aln.path[i].edit[j]>>]
          < filter.min_depth

\* C30: a depth_filter call returns its input unchanged only if every
\* counted edit of every mapping has been seen at least min_depth times at
\* its position, this call included; when an edit fails the result is the
\* empty alignment (remove_failing_alignments) or the input with a failing
\* edit replaced by a match; pure matches are counted only under
\* filter_matches.
C30_DepthFilter ==
    filter.pc = "returned" /\ Len(filter.aln.path) > 0 =>
        /\ filter.result = filter.aln =>
              \A i \in 1..2, j \in 1..MaxEdits : ~Fails(i, j)
        /\ (\E i \in 1..2, j \in 1..MaxEdits : Fails(i, j)) =>
              IF filter.remove_failing_alignments
              THEN filter.result = EmptyAlignment
              ELSE \E i \in 1..2, j \in 1..MaxEdits :
                      Fails(i, j) /\ filter.result = edited_aln(filter.aln, i, j)
        /\ ~filter.filter_matches =>
              \A k \in DOMAIN filter.pos_to_edit_to_depth :
                  pure_match(k[2]) => filter.pos_to_edit_to_depth[k] = 0

====
